---- MODULE Spec2Model ----
(***************************************************************************)
(* Model of the Bithub client layer (bithub/bithub_comms.py): the rate     *)
(* limiter, the request executor BithubComms._request with its retry and   *)
(* backoff policy, the reply-polling protocol wait_for_reply, and the      *)
(* operations built on them (bithub_comms.py, bithub_cores.py, plugin.py). *)
(*                                                                         *)
(* Time is counted in ticks of 1/TicksPerSecond seconds, so that the       *)
(* limiter intervals 60/100 s and 60/50 s are whole numbers of ticks.      *)
(* A response is what requests.request hands back: a status code and an    *)
(* optional Retry-After header text; a transport failure is an attempt     *)
(* that raises requests.exceptions.RequestException instead.               *)
(***************************************************************************)
EXTENDS Integers, Sequences, FiniteSets, TLC

(* ------------------------------ bounds -------------------------------- *)
MaxRetries == 3
MaxPostId == 2
\* pieces a message body is put together from
MaxSegments == 2
MaxTopics == 2
\* ticks after construction during which a client starts new requests
Horizon == 8

(* ------------------------- program constants -------------------------- *)
TicksPerSecond == 5
GlobalCallsPerMinute == 100
WriteCallsPerMinute == 50
DefaultRetries == 4
CORES_CATEGORY_ID == 54
FirstBackoff == 1
BackoffFactor == 2
EmptyReplyDelay == 2
DefaultPollInterval == 2
DefaultDelay == 2

\* the wall clock when the client is constructed: far from the limiter's
\* initial last_call of 0
Epoch == 20

\* RateLimiter.__init__: interval = 60.0 / calls_per_minute, here in ticks
Interval(calls_per_minute) == (60 * TicksPerSecond) \div calls_per_minute

\* random.uniform(0, jitter * interval) with jitter 0.1: less than one tick,
\* observed on the tick clock as 0 or 1
Noise == {0, 1}

Methods == {"GET", "POST", "PUT", "DELETE"}
WriteMethods == {"POST", "PUT", "DELETE"}

Statuses == {200, 304, 401, 403, 404, 429, 500, 503}

\* Retry-After header texts as character sequences; NoHeader when absent
NoHeader == << >>
RetryAfterTexts ==
    { <<"0">>, <<"2">>, <<"1", "0">>, <<"-", "1">>, <<"W", "e", "d">> }
Headers == RetryAfterTexts \cup {NoHeader}

Digits == {"0", "1", "2", "3", "4", "5", "6", "7", "8", "9"}

DigitVal(c) ==
    CASE c = "0" -> 0 [] c = "1" -> 1 [] c = "2" -> 2 [] c = "3" -> 3
      [] c = "4" -> 4 [] c = "5" -> 5 [] c = "6" -> 6 [] c = "7" -> 7
      [] c = "8" -> 8 [] c = "9" -> 9

RECURSIVE DigitsValue(_)
DigitsValue(s) ==
    IF s = << >> THEN 0
    ELSE 10 * DigitsValue(SubSeq(s, 1, Len(s) - 1)) + DigitVal(s[Len(s)])

AllDigits(s) == Len(s) > 0 /\ \A i \in 1..Len(s) : s[i] \in Digits

\* int(text): an optional sign and decimal digits, anything else ValueError
IntParses(s) ==
    \/ AllDigits(s)
    \/ Len(s) > 1 /\ s[1] \in {"-", "+"} /\ AllDigits(Tail(s))

IntValue(s) ==
    IF s[1] = "-" THEN 0 - DigitsValue(Tail(s))
    ELSE IF s[1] = "+" THEN DigitsValue(Tail(s))
    ELSE DigitsValue(s)

\* requests.Response.ok: raise_for_status raises for 400 <= status < 600
ResponseOk(status) == ~(status >= 400 /\ status < 600)

ErrorKinds ==
    {"BithubAuthError", "BithubRateLimitError", "BithubNetworkError", "BithubError"}

\* what the server holds for a post: rendered and source text, both empty
\* while the post row exists but its content is not yet committed
EmptyContent == [cooked |-> "", raw |-> ""]
Contents == { EmptyContent,
              [cooked |-> "<p>reply</p>", raw |-> ""],
              [cooked |-> "", raw |-> "reply"] }

\* arguments of wait_for_reply, in seconds
Timeouts == {-1, 0, 3}
PollIntervals == {1, 3}

VARIABLES
    now,          \* time.time(), in ticks
    global_last,  \* global_limiter.last_call
    write_last,   \* write_limiter.last_call
    rpc,          \* _request: "idle", "loop", "returned", "raised"
    method,       \* _request's method argument
    retries,      \* _request's retries argument
    attempt,      \* the for-loop index
    backoff,      \* the local backoff, in seconds
    calls,        \* requests.request calls made by the current _request
    sleeps,       \* time.sleep arguments of the current _request, in order
    trace,        \* status of each attempt so far (0: transport exception)
    last,         \* the latest attempt: what it got and what the call did
    outcome,      \* how the current _request ended
    endpoint,     \* what the current _request asks for: "topic", "post", "other"
    body,         \* response.json() of the call that returned
    stream,       \* server: the topic's post_stream.stream
    content,      \* server: each post's cooked and raw text
    posted,       \* server: the ids it answers a POST /posts.json with,
                  \*   or the topics it answers GET /c/<id>.json with
    wpc,          \* wait_for_reply: "idle", "check", "topic", "post",
                  \*   "returned", "raised"
    last_post_id, \* wait_for_reply's arguments
    timeout,
    poll_interval,
    start_time,   \* wait_for_reply's locals
    new_post_id,
    wresult,      \* what wait_for_reply returned or raised
    polls,        \* get_topic_posts calls of the current wait_for_reply
    wsleeps,      \* time.sleep arguments of the current wait_for_reply
    sawNew,       \* some poll of the current wait saw stream[-1] > last_post_id
    found,        \* the first post fetched with non-empty cooked or raw
    opc,          \* a client operation: "idle", "request", "responded",
                  \*   "wait", "returned", "raised"
    call,         \* the operation called and its arguments
    response,     \* the operation's local `response`
    oresult,      \* what the operation returned or raised
    oplog,        \* what the operation itself did, in order: its _request
                  \*   and wait_for_reply calls and the error it met
    environ,      \* os.environ.get("BITHUB_USER_API_KEY")
    client,       \* BithubComms(): "none" before it is called, "ready",
                  \*   or "raised"
    user_api_key, \* self.user_api_key
    headers,      \* self.headers["User-Api-Key"]
    peer_global_last, \* global_limiter.last_call of a second BithubComms
    peer_write_last   \* write_limiter.last_call of that second instance

limVars == << global_last, write_last >>
reqVars == << rpc, method, retries, attempt, backoff, calls, sleeps, trace,
              last, outcome, endpoint, body >>
srvVars == << stream, content, posted >>
waitVars == << wpc, last_post_id, timeout, poll_interval, start_time,
               new_post_id, wresult, polls, wsleeps, sawNew, found >>
opVars == << opc, call, response, oresult, oplog >>
cfgVars == << environ, client, user_api_key, headers >>
peerVars == << peer_global_last, peer_write_last >>
vars == << now, limVars, reqVars, srvVars, waitVars, opVars, cfgVars,
          peerVars >>

\* the status recorded for an attempt that raised RequestException
TransportFailure == 0

\* os.environ.get of a variable that is not set
NoKey == "None"
NoAttempt ==
    [status |-> -1, header |-> NoHeader, backoff |-> 0, slept |-> -1,
     key |-> NoKey]
NoOutcome == [kind |-> "none", msg |-> "none"]
NoBody == [kind |-> "none"]
NoPost == [kind |-> "none"]
NoResult == [kind |-> "none"]
\* the None that wait_for_reply returns when the timeout has expired
NoReply == [kind |-> "None"]
\* response.get(key) of a key the response does not carry
Missing == -1
\* no operation has been called
NoCall ==
    [name |-> "none", sync |-> FALSE, burn |-> FALSE, keywords |-> FALSE,
     timeout |-> 0, poll_interval |-> 0, args |-> "ok", raw |-> << >>,
     length |-> 0, audience |-> "human", category |-> 0]
NoIds == [topic_id |-> Missing, id |-> Missing]

\* the keys the environment may hold
EnvKeys == {NoKey, "", "key-a", "key-b"}

\* a process that has called nothing yet
Fresh ==
    /\ now = Epoch
    /\ global_last = 0
    /\ write_last = 0
    /\ peer_global_last = 0
    /\ peer_write_last = 0
    /\ rpc = "idle"
    /\ method = "GET"
    /\ retries = 0
    /\ attempt = 0
    /\ backoff = FirstBackoff
    /\ calls = 0
    /\ sleeps = << >>
    /\ trace = << >>
    /\ last = NoAttempt
    /\ outcome = NoOutcome
    /\ endpoint = "other"
    /\ body = NoBody
    /\ stream = << >>
    /\ content = [i \in 1..MaxPostId |-> EmptyContent]
    /\ wpc = "idle"
    /\ last_post_id = 0
    /\ timeout = 0
    /\ poll_interval = 0
    /\ start_time = 0
    /\ new_post_id = 0
    /\ wresult = NoResult
    /\ polls = 0
    /\ wsleeps = << >>
    /\ sawNew = FALSE
    /\ found = NoPost
    /\ posted = NoIds
    /\ opc = "idle"
    /\ call = NoCall
    /\ response = NoBody
    /\ oresult = NoResult
    /\ oplog = << >>

\* the state after BithubComms() with the key "key-a" in the environment
Init ==
    /\ Fresh
    /\ environ = "key-a"
    /\ client = "ready"
    /\ user_api_key = "key-a"
    /\ headers = "key-a"

(* --------------------------- RateLimiter ------------------------------ *)

\* mutant of WaitReturn: the jitter is taken off the wait instead of added
WaitReturnJitterEarly(t, last_call, interval, noise) ==
    LET elapsed == t - last_call
        wait_time == interval - elapsed
    IN  IF wait_time > 0 THEN t + wait_time - noise ELSE t

\* mutant of WaitReturn: the noise is slept also when no wait is due
WaitReturnAlwaysJitters(t, last_call, interval, noise) ==
    LET elapsed == t - last_call
        wait_time == interval - elapsed
    IN  IF wait_time > 0 THEN t + wait_time + noise ELSE t + noise

\* RateLimiter.wait: the time at which wait() returns when entered at time t
\* with the given last_call, for a drawn noise
WaitReturn(t, last_call, interval, noise) ==
    LET elapsed == t - last_call
        wait_time == interval - elapsed
    IN  IF wait_time > 0 THEN t + wait_time + noise ELSE t

(* ---------------------------- _request -------------------------------- *)

Raise(kind, msg) == [kind |-> kind, msg |-> msg]

\* mutant of RequestStart: the write limiter is acquired before the global
\* one
RequestStartWriteFirst(m, r, ep) ==
    /\ \E n1 \in Noise, n2 \in Noise :
         LET t1 == IF m \in WriteMethods
                   THEN WaitReturn(now, write_last, Interval(WriteCallsPerMinute), n2)
                   ELSE now
             t2 == WaitReturn(t1, global_last, Interval(GlobalCallsPerMinute), n1)
         IN  /\ global_last' = t2
             /\ write_last' = IF m \in WriteMethods THEN t1 ELSE write_last
             /\ now' = t2
    /\ method' = m
    /\ retries' = r
    /\ endpoint' = ep
    /\ body' = NoBody
    /\ attempt' = 0
    /\ backoff' = FirstBackoff
    /\ calls' = 0
    /\ sleeps' = << >>
    /\ trace' = << >>
    /\ last' = NoAttempt
    /\ IF r <= 0
       THEN /\ rpc' = "raised"
            /\ outcome' = Raise("BithubNetworkError", "Max retries exceeded")
       ELSE /\ rpc' = "loop"
            /\ outcome' = NoOutcome

\* _request up to the retry loop: the limiter waits, backoff = 1, and the
\* loop's exit when range(retries) is empty
RequestStart(m, r, ep) ==
    /\ \E n1 \in Noise, n2 \in Noise :
         LET t1 == WaitReturn(now, global_last, Interval(GlobalCallsPerMinute), n1)
             t2 == IF m \in WriteMethods
                   THEN WaitReturn(t1, write_last, Interval(WriteCallsPerMinute), n2)
                   ELSE t1
         IN  /\ global_last' = t1
             /\ write_last' = IF m \in WriteMethods THEN t2 ELSE write_last
             /\ now' = t2
    /\ method' = m
    /\ retries' = r
    /\ endpoint' = ep
    /\ body' = NoBody
    /\ attempt' = 0
    /\ backoff' = FirstBackoff
    /\ calls' = 0
    /\ sleeps' = << >>
    /\ trace' = << >>
    /\ last' = NoAttempt
    /\ IF r <= 0
       THEN /\ rpc' = "raised"
            /\ outcome' = Raise("BithubNetworkError", "Max retries exceeded")
       ELSE /\ rpc' = "loop"
            /\ outcome' = NoOutcome

\* mutant of Attempted: the key is read from the environment at each call
AttemptedReadsEnviron(status, header, slept) ==
    /\ calls' = calls + 1
    /\ trace' = Append(trace, status)
    /\ last' = [status |-> status, header |-> header, backoff |-> backoff,
                slept |-> slept, key |-> environ]

\* one more requests.request call in the loop, with headers=self.headers
Attempted(status, header, slept) ==
    /\ calls' = calls + 1
    /\ trace' = Append(trace, status)
    /\ last' = [status |-> status, header |-> header, backoff |-> backoff,
                slept |-> slept, key |-> headers]

\* response.json() for the endpoint asked: the topic with its stream, the
\* post with its content, or some other JSON document
PostBody(id) ==
    [kind |-> "post", id |-> id, cooked |-> content[id].cooked,
     raw |-> content[id].raw]
ResponseBody ==
    CASE endpoint = "topic" -> [kind |-> "topic", stream |-> stream]
      [] endpoint = "post" -> PostBody(new_post_id)
      [] endpoint = "write" ->
            [kind |-> "json", topic_id |-> posted.topic_id, id |-> posted.id]
      [] endpoint = "category" ->
            [kind |-> "json", listed |-> posted.listed,
             topics |-> posted.topics]
      [] OTHER -> [kind |-> "json"]

Finish(pc, result) ==
    /\ rpc' = pc
    /\ outcome' = result
    /\ body' = IF result.kind = "body" THEN ResponseBody ELSE NoBody
    /\ UNCHANGED << cfgVars, peerVars, now, attempt, backoff, sleeps >>

\* mutant of SleepAndContinue: backoff *= 2 forgotten
SleepAndContinueNoDouble(seconds) ==
    /\ now' = now + seconds * TicksPerSecond
    /\ sleeps' = Append(sleeps, seconds)
    /\ body' = NoBody
    /\ backoff' = backoff
    /\ attempt' = attempt + 1
    /\ IF attempt + 1 < retries
       THEN /\ rpc' = "loop"
            /\ outcome' = NoOutcome
       ELSE /\ rpc' = "raised"
            /\ outcome' = Raise("BithubNetworkError", "Max retries exceeded")

\* mutant of SleepAndContinue: an exhausted loop returns an empty body
SleepAndContinueReturnsEmpty(seconds) ==
    /\ now' = now + seconds * TicksPerSecond
    /\ sleeps' = Append(sleeps, seconds)
    /\ body' = NoBody
    /\ backoff' = backoff * BackoffFactor
    /\ attempt' = attempt + 1
    /\ IF attempt + 1 < retries
       THEN /\ rpc' = "loop"
            /\ outcome' = NoOutcome
       ELSE /\ rpc' = "returned"
            /\ outcome' = [kind |-> "body", msg |-> "none"]

\* time.sleep(seconds), backoff *= 2 and the next loop iteration; after the
\* last iteration the loop ends and "Max retries exceeded" is raised
SleepAndContinue(seconds) ==
    /\ now' = now + seconds * TicksPerSecond
    /\ sleeps' = Append(sleeps, seconds)
    /\ body' = NoBody
    /\ backoff' = backoff * BackoffFactor
    /\ attempt' = attempt + 1
    /\ IF attempt + 1 < retries
       THEN /\ rpc' = "loop"
            /\ outcome' = NoOutcome
       ELSE /\ rpc' = "raised"
            /\ outcome' = Raise("BithubNetworkError", "Max retries exceeded")

InLoop == rpc = "loop" /\ attempt < retries

\* response.ok: return response.json()
AttemptOk(status) ==
    /\ InLoop
    /\ ResponseOk(status)
    /\ Attempted(status, NoHeader, -1)
    /\ Finish("returned", [kind |-> "body", msg |-> "none"])

\* mutant of AttemptAuth: 401/403 handled like a server error
AttemptAuthRetried(status) ==
    /\ InLoop
    /\ ~ResponseOk(status)
    /\ status \in {401, 403}
    /\ Attempted(status, NoHeader, backoff)
    /\ SleepAndContinue(backoff)

\* status 401 or 403: raise BithubAuthError
AttemptAuth(status) ==
    /\ InLoop
    /\ ~ResponseOk(status)
    /\ status \in {401, 403}
    /\ Attempted(status, NoHeader, -1)
    /\ Finish("raised", Raise("BithubAuthError", "HTTP status"))

\* status 429 on the last allowed attempt: raise BithubRateLimitError
AttemptRateLimitedLast(header) ==
    /\ InLoop
    /\ attempt = retries - 1
    /\ Attempted(429, header, -1)
    /\ Finish("raised", Raise("BithubRateLimitError", "Rate limit exceeded"))

\* wait_time = int(response.headers.get("Retry-After", backoff))
WaitTimeParses(header) == header = NoHeader \/ IntParses(header)
\* mutant of WaitTime: the larger of the header and the backoff
WaitTimeMax(header) ==
    IF header = NoHeader THEN backoff
    ELSE IF IntValue(header) > backoff THEN IntValue(header) ELSE backoff
\* mutant of WaitTime: the header is not read
WaitTimeNoHeader(header) == backoff
WaitTime(header) == IF header = NoHeader THEN backoff ELSE IntValue(header)

\* mutant of AttemptRateLimited: a sleep taken from Retry-After leaves the
\* backoff as it was
AttemptRateLimitedKeepsBackoff(header) ==
    /\ InLoop
    /\ attempt # retries - 1
    /\ WaitTimeParses(header)
    /\ WaitTime(header) >= 0
    /\ Attempted(429, header, WaitTime(header))
    /\ IF header = NoHeader
       THEN SleepAndContinue(WaitTime(header))
       ELSE SleepAndContinueNoDouble(WaitTime(header))

\* status 429 before the last attempt: sleep wait_time, double, retry
AttemptRateLimited(header) ==
    /\ InLoop
    /\ attempt # retries - 1
    /\ WaitTimeParses(header)
    /\ WaitTime(header) >= 0
    /\ Attempted(429, header, WaitTime(header))
    /\ SleepAndContinue(WaitTime(header))

\* status 429 before the last attempt with a Retry-After that int() rejects,
\* or a negative one that time.sleep rejects: the ValueError is no
\* RequestException and leaves _request
AttemptRateLimitedBadHeader(header) ==
    /\ InLoop
    /\ attempt # retries - 1
    /\ ~(WaitTimeParses(header) /\ WaitTime(header) >= 0)
    /\ Attempted(429, header, -1)
    /\ Finish("raised", Raise("ValueError", "Retry-After"))

\* mutant of AttemptServerError: no sleep after the last attempt
AttemptServerErrorLastNoSleep(status) ==
    /\ InLoop
    /\ ~ResponseOk(status)
    /\ status \notin {401, 403}
    /\ status # 429
    /\ status >= 500
    /\ IF attempt = retries - 1
       THEN /\ Attempted(status, NoHeader, -1)
            /\ Finish("raised",
                      Raise("BithubNetworkError", "Max retries exceeded"))
       ELSE /\ Attempted(status, NoHeader, backoff)
            /\ SleepAndContinue(backoff)

\* status >= 500: sleep backoff, double, retry
AttemptServerError(status) ==
    /\ InLoop
    /\ ~ResponseOk(status)
    /\ status \notin {401, 403}
    /\ status # 429
    /\ status >= 500
    /\ Attempted(status, NoHeader, backoff)
    /\ SleepAndContinue(backoff)

\* any other response: raise BithubError
AttemptOther(status) ==
    /\ InLoop
    /\ ~ResponseOk(status)
    /\ status \notin {401, 403}
    /\ status # 429
    /\ ~(status >= 500)
    /\ Attempted(status, NoHeader, -1)
    /\ Finish("raised", Raise("BithubError", "HTTP status"))

\* mutant of AttemptException: a fixed one-second pause
AttemptExceptionFixedSleep ==
    /\ InLoop
    /\ attempt # retries - 1
    /\ Attempted(TransportFailure, NoHeader, FirstBackoff)
    /\ SleepAndContinue(FirstBackoff)

\* requests.request raises RequestException before the last attempt
AttemptException ==
    /\ InLoop
    /\ attempt # retries - 1
    /\ Attempted(TransportFailure, NoHeader, backoff)
    /\ SleepAndContinue(backoff)

\* requests.request raises RequestException on the last attempt
AttemptExceptionLast ==
    /\ InLoop
    /\ attempt = retries - 1
    /\ Attempted(TransportFailure, NoHeader, -1)
    /\ Finish("raised", Raise("BithubNetworkError", "Network error after retries"))

\* what no loop iteration changes
\* mutant of LoopFrame: the global limiter's last_call is set at each attempt
LoopFrameStampsAttempt ==
    /\ global_last' = now
    /\ UNCHANGED << cfgVars, peerVars, write_last, method, retries, endpoint, srvVars,
                    waitVars, opVars >>

\* what an iteration of the retry loop leaves alone
LoopFrame ==
    UNCHANGED << cfgVars, peerVars, global_last, write_last, method, retries, endpoint, srvVars,
                 waitVars, opVars >>

Ok(S) == \E s \in S : AttemptOk(s) /\ LoopFrame
Auth(S) == \E s \in S : AttemptAuth(s) /\ LoopFrame
RateLimitedLast(H) == \E h \in H : AttemptRateLimitedLast(h) /\ LoopFrame
RateLimited(H) == \E h \in H : AttemptRateLimited(h) /\ LoopFrame
RateLimitedBadHeader(H) == \E h \in H : AttemptRateLimitedBadHeader(h) /\ LoopFrame
ServerError(S) == \E s \in S : AttemptServerError(s) /\ LoopFrame
Other(S) == \E s \in S : AttemptOther(s) /\ LoopFrame
TransportException == AttemptException /\ LoopFrame
TransportExceptionLast == AttemptExceptionLast /\ LoopFrame

\* every variable as the constructor of a fresh process leaves it
Cleared ==
    /\ now' = Epoch
    /\ global_last' = 0
    /\ write_last' = 0
    /\ peer_global_last' = 0
    /\ peer_write_last' = 0
    /\ rpc' = "idle"
    /\ method' = "GET"
    /\ retries' = 0
    /\ attempt' = 0
    /\ backoff' = FirstBackoff
    /\ calls' = 0
    /\ sleeps' = << >>
    /\ trace' = << >>
    /\ last' = NoAttempt
    /\ outcome' = NoOutcome
    /\ endpoint' = "other"
    /\ body' = NoBody
    /\ stream' = << >>
    /\ content' = [i \in 1..MaxPostId |-> EmptyContent]
    /\ wpc' = "idle"
    /\ last_post_id' = 0
    /\ timeout' = 0
    /\ poll_interval' = 0
    /\ start_time' = 0
    /\ new_post_id' = 0
    /\ wresult' = NoResult
    /\ polls' = 0
    /\ wsleeps' = << >>
    /\ sawNew' = FALSE
    /\ found' = NoPost
    /\ posted' = NoIds
    /\ opc' = "idle"
    /\ call' = NoCall
    /\ response' = NoBody
    /\ oresult' = NoResult
    /\ oplog' = << >>

Reset == Cleared /\ UNCHANGED cfgVars

\* a direct call of _request with any method and retry budget
StartRequest ==
    /\ rpc = "idle"
    /\ wpc = "idle"
    /\ \E m \in Methods, r \in (-1)..MaxRetries :
          RequestStart(m, r, "other")
    /\ UNCHANGED << cfgVars, peerVars, srvVars, waitVars, opVars >>

\* the call's result reaches its caller and the process ends: all state is
\* in memory and the next invocation constructs a fresh client
Exit ==
    /\ rpc \in {"returned", "raised"}
    /\ wpc = "idle"
    /\ Reset

Next ==
    \/ StartRequest
    \/ Ok(Statuses)
    \/ Auth(Statuses)
    \/ RateLimitedLast(Headers)
    \/ RateLimited(Headers)
    \/ RateLimitedBadHeader(Headers)
    \/ ServerError(Statuses)
    \/ Other(Statuses)
    \/ TransportException
    \/ TransportExceptionLast
    \/ Exit

Spec == Init /\ [][Next]_vars

\* requests.request returns or raises, and time.sleep returns: the attempt
\* the loop is at gets one of its outcomes
AttemptStep ==
    \/ Ok(Statuses)
    \/ Auth(Statuses)
    \/ RateLimitedLast(Headers)
    \/ RateLimited(Headers)
    \/ RateLimitedBadHeader(Headers)
    \/ ServerError(Statuses)
    \/ Other(Statuses)
    \/ TransportException
    \/ TransportExceptionLast

FairSpec == Spec /\ WF_vars(AttemptStep)

(* ------------------------- the forum server --------------------------- *)

StreamLast == IF stream = << >> THEN 0 ELSE stream[Len(stream)]

\* somebody posts in the topic: the stream gets the next id; the post's
\* content may be there at once or be committed later
ServerPost ==
    /\ StreamLast < MaxPostId
    /\ \E c \in Contents :
         /\ stream' = Append(stream, StreamLast + 1)
         /\ content' = [content EXCEPT ![StreamLast + 1] = c]
    /\ UNCHANGED << cfgVars, peerVars, now, limVars, reqVars, waitVars, posted, opVars >>

\* the content of a post whose row already exists is committed
ServerCommit ==
    /\ \E i \in 1..Len(stream), c \in Contents \ {EmptyContent} :
         /\ content[stream[i]] = EmptyContent
         /\ content' = [content EXCEPT ![stream[i]] = c]
    /\ UNCHANGED << cfgVars, peerVars, now, limVars, reqVars, waitVars, stream, posted, opVars >>

(* -------------------------- wait_for_reply ---------------------------- *)

\* Python truth of a string from post.get(...)
Truthy(text) == text # ""

\* time.sleep(seconds) in the polling loop, then back to the loop's test
PollSleep(seconds) ==
    /\ now' = now + seconds * TicksPerSecond
    /\ wsleeps' = Append(wsleeps, seconds)
    /\ wpc' = "check"

\* _request has handed its result over: its locals are gone
RequestClosed ==
    /\ rpc' = "idle"
    /\ method' = "GET"
    /\ retries' = 0
    /\ attempt' = 0
    /\ backoff' = FirstBackoff
    /\ calls' = 0
    /\ sleeps' = << >>
    /\ trace' = << >>
    /\ last' = NoAttempt
    /\ outcome' = NoOutcome
    /\ endpoint' = "other"
    /\ body' = NoBody

\* wait_for_reply is called: start_time = time.time()
WaitStart(lp, t, pi) ==
    /\ wpc = "idle"
    /\ rpc = "idle"
    /\ wpc' = "check"
    /\ last_post_id' = lp
    /\ timeout' = t
    /\ poll_interval' = pi
    /\ start_time' = now
    /\ new_post_id' = 0
    /\ wresult' = NoResult
    /\ polls' = 0
    /\ wsleeps' = << >>
    /\ sawNew' = FALSE
    /\ found' = NoPost
    /\ UNCHANGED << cfgVars, peerVars, now, limVars, reqVars, srvVars >>

\* mutant of BeforeDeadline: the loop still runs at the deadline itself
BeforeDeadlineInclusive == (now - start_time) <= timeout * TicksPerSecond
\* the while test: (time.time() - start_time) < timeout
BeforeDeadline == (now - start_time) < timeout * TicksPerSecond

\* the test holds: get_topic_posts(topic_id) enters _request
PollBegin ==
    /\ wpc = "check"
    /\ BeforeDeadline
    /\ RequestStart("GET", DefaultRetries, "topic")
    /\ wpc' = "topic"
    /\ polls' = polls + 1
    /\ UNCHANGED << cfgVars, peerVars, opVars, srvVars, last_post_id, timeout, poll_interval, start_time,
                    new_post_id, wresult, wsleeps, sawNew, found >>

\* mutant of TimedOut: the expired deadline is raised as an error
TimedOutRaises ==
    /\ wpc = "check"
    /\ ~BeforeDeadline
    /\ wpc' = "raised"
    /\ wresult' = [kind |-> "TimeoutError", msg |-> "timeout"]
    /\ UNCHANGED << cfgVars, peerVars, opVars, now, limVars, reqVars, srvVars, last_post_id, timeout,
                    poll_interval, start_time, new_post_id, polls, wsleeps,
                    sawNew, found >>

\* the test fails: return None
TimedOut ==
    /\ wpc = "check"
    /\ ~BeforeDeadline
    /\ wpc' = "returned"
    /\ wresult' = NoReply
    /\ UNCHANGED << cfgVars, peerVars, opVars, now, limVars, reqVars, srvVars, last_post_id, timeout,
                    poll_interval, start_time, new_post_id, polls, wsleeps,
                    sawNew, found >>

\* mutant of FetchRaised: a failed fetch counts as no reply
FetchRaisedReturnsNone ==
    /\ wpc \in {"topic", "post"}
    /\ rpc = "raised"
    /\ wpc' = "returned"
    /\ wresult' = NoReply
    /\ RequestClosed
    /\ UNCHANGED << cfgVars, peerVars, opVars, now, limVars, srvVars, last_post_id, timeout,
                    poll_interval, start_time, new_post_id, polls, wsleeps,
                    sawNew, found >>

\* an error raised by _request leaves wait_for_reply as it is
FetchRaised ==
    /\ wpc \in {"topic", "post"}
    /\ rpc = "raised"
    /\ wpc' = "raised"
    /\ wresult' = outcome
    /\ RequestClosed
    /\ UNCHANGED << cfgVars, peerVars, opVars, now, limVars, srvVars, last_post_id, timeout,
                    poll_interval, start_time, new_post_id, polls, wsleeps,
                    sawNew, found >>

\* mutant of TopicNew: the oldest entry above last_post_id is fetched
TopicNewOldestFirst ==
    /\ wpc = "topic"
    /\ rpc = "returned"
    /\ body.stream # << >>
    /\ body.stream[Len(body.stream)] > last_post_id
    /\ new_post_id' = body.stream[CHOOSE i \in 1..Len(body.stream) :
                           /\ body.stream[i] > last_post_id
                           /\ \A j \in 1..(i - 1) : body.stream[j] <= last_post_id]
    /\ RequestStart("GET", DefaultRetries, "post")
    /\ wpc' = "post"
    /\ sawNew' = TRUE
    /\ UNCHANGED << cfgVars, peerVars, opVars, srvVars, last_post_id, timeout, poll_interval, start_time,
                    wresult, polls, wsleeps, found >>

\* get_topic_posts returned and the stream's last id is new:
\* get_post(stream[-1]) enters _request
TopicNew ==
    /\ wpc = "topic"
    /\ rpc = "returned"
    /\ body.stream # << >>
    /\ body.stream[Len(body.stream)] > last_post_id
    /\ new_post_id' = body.stream[Len(body.stream)]
    /\ RequestStart("GET", DefaultRetries, "post")
    /\ wpc' = "post"
    /\ sawNew' = TRUE
    /\ UNCHANGED << cfgVars, peerVars, opVars, srvVars, last_post_id, timeout, poll_interval, start_time,
                    wresult, polls, wsleeps, found >>

\* get_topic_posts returned and nothing is new: time.sleep(poll_interval)
TopicOld ==
    /\ wpc = "topic"
    /\ rpc = "returned"
    /\ ~(body.stream # << >> /\ body.stream[Len(body.stream)] > last_post_id)
    /\ PollSleep(poll_interval)
    /\ RequestClosed
    /\ UNCHANGED << cfgVars, peerVars, opVars, limVars, srvVars, last_post_id, timeout, poll_interval,
                    start_time, new_post_id, wresult, polls, sawNew, found >>

\* mutant of HasContent: only the rendered text is looked at
HasContentCookedOnly(post) == Truthy(post.cooked)
\* post.get("cooked") or post.get("raw")
HasContent(post) == Truthy(post.cooked) \/ Truthy(post.raw)

\* mutant of PostFound: a reply fetched after the deadline is dropped
PostFoundChecksDeadline ==
    /\ wpc = "post"
    /\ rpc = "returned"
    /\ HasContent(body)
    /\ wpc' = "returned"
    /\ wresult' = IF BeforeDeadline THEN body ELSE NoReply
    /\ found' = body
    /\ RequestClosed
    /\ UNCHANGED << cfgVars, peerVars, opVars, now, limVars, srvVars, last_post_id, timeout,
                    poll_interval, start_time, new_post_id, polls, wsleeps,
                    sawNew >>

\* get_post returned a post with content: return post
PostFound ==
    /\ wpc = "post"
    /\ rpc = "returned"
    /\ HasContent(body)
    /\ wpc' = "returned"
    /\ wresult' = body
    /\ found' = body
    /\ RequestClosed
    /\ UNCHANGED << cfgVars, peerVars, opVars, now, limVars, srvVars, last_post_id, timeout,
                    poll_interval, start_time, new_post_id, polls, wsleeps,
                    sawNew >>

\* mutant of PostEmpty: the wait after an empty post is the poll interval
PostEmptySleepsPollInterval ==
    /\ wpc = "post"
    /\ rpc = "returned"
    /\ ~HasContent(body)
    /\ PollSleep(poll_interval)
    /\ RequestClosed
    /\ found' = IF found = NoPost /\ (Truthy(body.cooked) \/ Truthy(body.raw))
                THEN body ELSE found
    /\ UNCHANGED << cfgVars, peerVars, opVars, limVars, srvVars, last_post_id, timeout, poll_interval,
                    start_time, new_post_id, wresult, polls, sawNew >>

\* get_post returned a post without content: time.sleep(2); continue
PostEmpty ==
    /\ wpc = "post"
    /\ rpc = "returned"
    /\ ~HasContent(body)
    /\ PollSleep(EmptyReplyDelay)
    /\ RequestClosed
    /\ found' = IF found = NoPost /\ (Truthy(body.cooked) \/ Truthy(body.raw))
                THEN body ELSE found
    /\ UNCHANGED << cfgVars, peerVars, opVars, limVars, srvVars, last_post_id, timeout, poll_interval,
                    start_time, new_post_id, wresult, polls, sawNew >>

\* a call of wait_for_reply with any arguments
StartWait ==
    \E lp \in 0..MaxPostId, t \in Timeouts, pi \in PollIntervals :
        WaitStart(lp, t, pi) /\ UNCHANGED opVars

\* wait_for_reply's result reaches its caller and the process ends
WaitExit ==
    /\ wpc \in {"returned", "raised"}
    /\ Reset

\* what the server answers a poll's attempts with. A failure that is
\* retried is a 503 here: a 429 without Retry-After or a transport failure
\* before the final attempt has the same effect on the caller (sleep the
\* backoff, double it, retry).
PollStatuses == {200, 401, 404, 429, 503}
PollHeaders == {NoHeader}

\* the steps of the client while a wait_for_reply is running
WaitStep ==
    \/ PollBegin
    \/ TimedOut
    \/ FetchRaised
    \/ TopicNew
    \/ TopicOld
    \/ PostFound
    \/ PostEmpty
    \/ Ok(PollStatuses)
    \/ Auth(PollStatuses)
    \/ RateLimitedLast(PollHeaders)
    \/ ServerError(PollStatuses)
    \/ Other(PollStatuses)
    \/ TransportExceptionLast

WaitNext ==
    \/ StartWait
    \/ WaitStep
    \/ WaitExit
    \/ ServerPost
    \/ ServerCommit

WaitSpec == Init /\ [][WaitNext]_vars

\* a running wait_for_reply is a sequential program whose HTTP attempts and
\* sleeps all return: its next step is always taken
FairWaitSpec == WaitSpec /\ WF_vars(WaitStep)

(* ----------------- one client, one request after another -------------- *)

\* what the server answers with when a client issues requests in sequence
SeqStatuses == {200, 401, 503}

\* the client calls _request again: the limiters are as the earlier calls
\* left them
SeqRequest ==
    /\ rpc = "idle"
    /\ wpc = "idle"
    /\ now < Epoch + Horizon
    /\ \E m \in Methods, r \in 0..MaxRetries : RequestStart(m, r, "other")
    /\ UNCHANGED << cfgVars, peerVars, srvVars, waitVars, opVars >>

\* _request has returned or raised and the client goes on
RequestDone ==
    /\ rpc \in {"returned", "raised"}
    /\ wpc = "idle"
    /\ RequestClosed
    /\ UNCHANGED << cfgVars, peerVars, now, limVars, srvVars, waitVars, opVars >>

\* time passes in the caller between two requests
Elapse ==
    /\ rpc = "idle"
    /\ wpc = "idle"
    /\ now < Epoch + Horizon
    /\ now' = now + 1
    /\ UNCHANGED << cfgVars, peerVars, limVars, reqVars, srvVars, waitVars, opVars >>

SeqNext ==
    \/ SeqRequest
    \/ RequestDone
    \/ Elapse
    \/ Ok(SeqStatuses)
    \/ Auth(SeqStatuses)
    \/ ServerError(SeqStatuses)

SeqSpec == Init /\ [][SeqNext]_vars

(* ------------------------- two client instances ------------------------ *)

\* mutant of PeerRequest: the limiters are shared by all instances
PeerRequestSharedLimiters ==
    /\ rpc = "idle"
    /\ wpc = "idle"
    /\ now < Epoch + Horizon
    /\ \E m \in Methods, n1 \in Noise, n2 \in Noise :
         LET t1 == WaitReturn(now, global_last,
                              Interval(GlobalCallsPerMinute), n1)
             t2 == IF m \in WriteMethods
                   THEN WaitReturn(t1, write_last,
                                   Interval(WriteCallsPerMinute), n2)
                   ELSE t1
         IN  /\ global_last' = t1
             /\ write_last' = IF m \in WriteMethods THEN t2 ELSE write_last
             /\ peer_global_last' = t1
             /\ peer_write_last' = IF m \in WriteMethods THEN t2
                                   ELSE peer_write_last
             /\ now' = t2
    /\ UNCHANGED << cfgVars, reqVars, srvVars, waitVars, opVars >>

\* a _request of a second BithubComms instance of the process, made between
\* two calls of the first: it waits on the limiters its own __init__ made,
\* and the clock moves by what it sleeps there
PeerRequest ==
    /\ rpc = "idle"
    /\ wpc = "idle"
    /\ now < Epoch + Horizon
    /\ \E m \in Methods, n1 \in Noise, n2 \in Noise :
         LET t1 == WaitReturn(now, peer_global_last,
                              Interval(GlobalCallsPerMinute), n1)
             t2 == IF m \in WriteMethods
                   THEN WaitReturn(t1, peer_write_last,
                                   Interval(WriteCallsPerMinute), n2)
                   ELSE t1
         IN  /\ peer_global_last' = t1
             /\ peer_write_last' = IF m \in WriteMethods THEN t2
                                   ELSE peer_write_last
             /\ now' = t2
    /\ UNCHANGED << cfgVars, limVars, reqVars, srvVars, waitVars, opVars >>

PeerNext ==
    \/ SeqRequest
    \/ RequestDone
    \/ Ok(SeqStatuses)
    \/ ServerError(SeqStatuses)
    \/ PeerRequest

PeerSpec == Init /\ [][PeerNext]_vars

(* ---------------------------- message bodies -------------------------- *)

\* A body is a sequence of tokens: "F" the fence ```json, "E" the fence ```,
\* "{" and "}", "k" a member name with its colon, "1" a JSON scalar, "s"
\* white space, "@" and "S" the at sign and the section sign, and "x" any
\* other text.
Tokens == {"F", "E", "{", "}", "k", "1", "s", "@", "S", "x"}

NoSpace(t) == SelectSeq(t, LAMBDA c : c # "s")

\* json.loads over tokens without white space: the index after the value
\* that starts at t[i], or 0 when none starts there
RECURSIVE ValueEnd(_, _)
ValueEnd(t, i) ==
    IF i > Len(t) THEN 0
    ELSE IF t[i] = "1" THEN i + 1
    ELSE IF t[i] # "{" \/ i + 1 > Len(t) THEN 0
    ELSE IF t[i + 1] = "}" THEN i + 2
    ELSE IF t[i + 1] # "k" THEN 0
    ELSE LET e == ValueEnd(t, i + 2)
         IN  IF e # 0 /\ e <= Len(t) /\ t[e] = "}" THEN e + 1 ELSE 0

\* json.loads(t) does not raise JSONDecodeError
JsonLoads(t) == LET u == NoSpace(t) IN ValueEnd(u, 1) = Len(u) + 1

\* the least member of a non-empty set of numbers
Least(S) == CHOOSE n \in S : \A m \in S : n <= m

\* \s* from position i: the first position that holds no white space
SkipSpace(t, i) ==
    Least({ j \in i..(Len(t) + 1) : j > Len(t) \/ t[j] # "s" })

\* three backticks at position i: both fences start with them
Backticks(t, i) == i <= Len(t) /\ t[i] \in {"F", "E"}

\* where the group ({.*?}) that starts at j may end: at a "}" followed by
\* \s*```
GroupEnds(t, j) ==
    { e \in (j + 1)..Len(t) : t[e] = "}" /\ Backticks(t, SkipSpace(t, e + 1)) }

\* the positions at which ```json\s*({.*?})\s*``` matches
MatchStarts(t) ==
    { i \in 1..Len(t) :
        /\ t[i] = "F"
        /\ LET j == SkipSpace(t, i + 1)
           IN  j <= Len(t) /\ t[j] = "{" /\ GroupEnds(t, j) # {} }

\* re.search(...).group(1): the leftmost match, its group as short as can
\* be; << >> when nothing matches
SearchGroup(t) ==
    IF MatchStarts(t) = {} THEN << >>
    ELSE LET j == SkipSpace(t, Least(MatchStarts(t)) + 1)
         IN  SubSeq(t, j, Least(GroupEnds(t, j)))

Returned(t) == [kind |-> "str", text |-> t]

\* _enforce_audience_format(content, audience)
EnforceAudienceFormat(txt, audience) ==
    IF audience = "human" THEN Returned(txt)
    ELSE IF audience # "ai" THEN Returned(txt)
    ELSE IF JsonLoads(txt) THEN Returned(txt)
    ELSE IF SearchGroup(txt) # << >> /\ JsonLoads(SearchGroup(txt))
         THEN Returned(SearchGroup(txt))
    ELSE Raise("BithubError", "Content validation failed")

\* target_audience as callers pass it
Audiences == {"human", "ai", "bot"}

\* the pieces of the bodies tried on _enforce_audience_format
Segments ==
    { << "x" >>, << "s" >>, << "1" >>, << "}" >>, << "F" >>, << "E" >>,
      << "{", "}" >>, << "{", "k", "1", "}" >>, << "{", "x", "}" >>,
      << "{", "k", "{", "}", "}" >>,
      << "F", "s", "{", "k", "1", "}", "s", "E" >>,
      << "F", "{", "x", "}", "E" >>,
      << "F", "s", "1", "s", "E" >> }

RECURSIVE Joined(_)
\* the bodies of at most n segments
Joined(n) ==
    IF n = 0 THEN { << >> }
    ELSE Joined(n - 1) \cup { b \o g : b \in Joined(n - 1), g \in Segments }

(* --------------------------- construction ----------------------------- *)

\* no client has been constructed yet
KeyInit ==
    /\ Fresh
    /\ environ \in EnvKeys
    /\ client = "none"
    /\ user_api_key = NoKey
    /\ headers = NoKey

\* `not self.user_api_key`: None or the empty string
Falsy(k) == k \in {NoKey, ""}

\* BithubComms(): the key is read from the environment; without one
\* BithubAuthError is raised and there is no client; otherwise the limiters
\* are made and the headers are built from the key
Construct ==
    /\ client = "none"
    /\ IF Falsy(environ)
       THEN /\ client' = "raised"
            /\ UNCHANGED << user_api_key, headers >>
       ELSE /\ client' = "ready"
            /\ user_api_key' = environ
            /\ headers' = environ
    /\ UNCHANGED << peerVars, now, limVars, reqVars, srvVars, waitVars, opVars,
                    environ >>

\* the process sets the environment variable anew or removes it
SetEnviron ==
    /\ client = "ready"
    /\ rpc = "idle"
    /\ \E k \in EnvKeys : k # environ /\ environ' = k
    /\ UNCHANGED << peerVars, now, limVars, reqVars, srvVars, waitVars, opVars,
                    client, user_api_key, headers >>

\* the client's _request is called
KeyRequest ==
    /\ client = "ready"
    /\ StartRequest

\* the request is over, or there is no client to call: the process ends
KeyExit ==
    /\ rpc \in {"returned", "raised"} \/ client = "raised"
    /\ Cleared
    /\ client' = "none"
    /\ user_api_key' = NoKey
    /\ headers' = NoKey
    /\ environ' \in EnvKeys

KeyStatuses == {200, 401, 503}

KeyNext ==
    \/ Construct
    \/ SetEnviron
    \/ KeyRequest
    \/ KeyExit
    \/ Ok(KeyStatuses)
    \/ Auth(KeyStatuses)
    \/ ServerError(KeyStatuses)
    \/ TransportException
    \/ TransportExceptionLast

KeySpec == KeyInit /\ [][KeyNext]_vars

(* ----------------------- the client's operations ---------------------- *)

\* create_topic, send_private_message, reply_to_post: a POST /posts.json
\* and, with sync, a wait_for_reply
WriteOps == {"create_topic", "send_private_message", "reply_to_post"}
\* operations that are one _request and return its body
SimpleOps ==
    {"get_topic_posts", "get_post", "delete_post", "delete_topic",
     "get_chat_messages", "send_chat_message"}

OpMethod(name) ==
    CASE name \in {"get_topic_posts", "get_post", "get_chat_messages"} -> "GET"
      [] name \in {"delete_post", "delete_topic"} -> "DELETE"
      [] OTHER -> "POST"

\* what a write is called with: the tokens of the body and the number of
\* its characters
PlainBody == [raw |-> << "x" >>, length |-> 14]
MentionBody == [raw |-> << "x", "s", "@", "x" >>, length |-> 12]
Bodies ==
    { PlainBody, MentionBody,
      [raw |-> << "{", "k", "1", "}" >>, length |-> 16],
      [raw |-> << "F", "s", "{", "k", "1", "}", "s", "E" >>, length |-> 28],
      [raw |-> << "x" >>, length |-> 32000],
      [raw |-> << "x" >>, length |-> 32001],
      [raw |-> << "x", "s", "{", "{", "x", "}", "}" >>, length |-> 14],
      [raw |-> << "x", "s", "S", "S", "x" >>, length |-> 14] }
BodyOf(c) == [raw |-> c.raw, length |-> c.length]

\* category_id=None
NoCategory == 0
Categories == {NoCategory, CORES_CATEGORY_ID - 1, CORES_CATEGORY_ID}

\* how a call's arguments fare in the checks made before any request, other
\* than the check of the body: "ok", "bad_recipients" (an empty recipients
\* list or a member that is no string), "bad_category" (a category_id the
\* cores registry does not list), "no_registry" (there is no registry file)
WriteCalls ==
    { c \in [name : WriteOps, sync : BOOLEAN, burn : {FALSE},
             keywords : {FALSE}, timeout : Timeouts,
             poll_interval : PollIntervals,
             args : {"ok", "bad_recipients"},
             raw : { b.raw : b \in Bodies },
             length : { b.length : b \in Bodies },
             audience : {"human", "ai"}, category : Categories] :
        /\ BodyOf(c) \in Bodies
        /\ c.args = "bad_recipients" => c.name = "send_private_message"
        /\ c.category # NoCategory
           => (c.name = "create_topic" /\ BodyOf(c) \in {PlainBody, MentionBody})
        \* the calls with sync, and those over all timeouts and poll
        \* intervals, are the plain ones
        /\ (BodyOf(c) # PlainBody \/ c.audience # "human"
                \/ c.category # NoCategory)
           => (~c.sync /\ c.timeout = 3 /\ c.poll_interval = 1) }
SimpleCalls ==
    [name : SimpleOps, sync : {FALSE}, burn : {FALSE}, keywords : {FALSE},
     timeout : {0}, poll_interval : {0}, args : {"ok"},
     raw : {PlainBody.raw}, length : {PlainBody.length},
     audience : {"human"}, category : {NoCategory}]
\* BithubClient.send_message(bot, text)
ClientCalls ==
    [name : {"send_message"}, sync : {FALSE}, burn : {FALSE},
     keywords : {FALSE}, timeout : {0}, poll_interval : {0}, args : {"ok"},
     raw : {PlainBody.raw}, length : {PlainBody.length},
     audience : {"human"}, category : {NoCategory}]
\* BithubCores.deploy_core(title, content, category_id), or with the
\* keyword arguments sync, burn and timeout as well
DeployCalls ==
    { c \in [name : {"deploy_core"}, sync : BOOLEAN, burn : BOOLEAN,
             keywords : BOOLEAN, timeout : {3}, poll_interval : {0},
             args : {"ok", "bad_category", "no_registry"},
             raw : {PlainBody.raw, MentionBody.raw},
             length : {PlainBody.length, MentionBody.length},
             audience : {"human"},
             category : {CORES_CATEGORY_ID - 1, CORES_CATEGORY_ID}] :
        /\ BodyOf(c) \in Bodies
        /\ ~c.keywords => (~c.sync /\ ~c.burn)
        /\ (c.keywords \/ c.args # "ok")
           => (BodyOf(c) = PlainBody /\ c.category = CORES_CATEGORY_ID) }

\* BithubCores.watch_topic(topic_id, last_post_id, timeout)
WatchCalls ==
    [name : {"watch_topic"}, sync : {FALSE}, burn : {FALSE},
     keywords : {FALSE}, timeout : Timeouts, poll_interval : {0},
     args : {"ok"}, raw : {PlainBody.raw}, length : {PlainBody.length},
     audience : {"human"}, category : {NoCategory}]

\* what the server may answer a POST /posts.json with: the ids of the new
\* post, or a body in which one of them is 0 or absent
WriteResponses ==
    { [topic_id |-> 7, id |-> 1], [topic_id |-> 8, id |-> 1],
      [topic_id |-> 0, id |-> 1], [topic_id |-> Missing, id |-> 1],
      [topic_id |-> 7, id |-> 0], [topic_id |-> 7, id |-> Missing] }

\* Python truth of response.get(key)
IdTruthy(x) == x # Missing /\ x # 0

RequestEntry(m) == [fn |-> "_request", method |-> m]
WaitEntry(tid, lp, t, pi) ==
    [fn |-> "wait_for_reply", topic_id |-> tid, last_post_id |-> lp,
     timeout |-> t, poll_interval |-> pi]
RaiseEntry(err) == [fn |-> "raise", error |-> err]

\* the "type" of handle_agent's report: the first except clause that the
\* error is an instance of; the three special errors derive from
\* BithubError only
ReportType(kind) ==
    CASE kind = "BithubAuthError" -> "AuthError"
      [] kind = "BithubRateLimitError" -> "RateLimitError"
      [] kind = "BithubNetworkError" -> "NetworkError"
      [] kind = "BithubError" -> "BithubError"

\* json.dumps of the report that handle_agent prints for an exception;
\* `except Exception` prints no type
Report(err) ==
    IF err.kind \in ErrorKinds
    THEN [status |-> "error", type |-> ReportType(err.kind),
          message |-> err.msg]
    ELSE [status |-> "error", message |-> err.msg]

\* sys.exit(code) after the lines in `out` were printed
SystemExit(code, out) == [kind |-> "SystemExit", code |-> code, stdout |-> out]

\* mutant of AgentReport: every Bithub error is reported as the base kind
AgentReportBaseKind(err) ==
    /\ opc' = "raised"
    /\ oresult' = SystemExit(1,
           << IF err.kind \in ErrorKinds
              THEN [status |-> "error", type |-> "BithubError",
                    message |-> err.msg]
              ELSE [status |-> "error", message |-> err.msg] >>)

\* handle_agent's except clauses: the report is printed, then sys.exit(1)
AgentReport(err) ==
    /\ opc' = "raised"
    /\ oresult' = SystemExit(1, << Report(err) >>)

\* an exception leaves the operation, or BithubClient.send_message's
\* `except Exception` turns it into an error dict, or it reaches the
\* except clauses of the CLI's handle_agent
OpRaise(c, err) ==
    /\ oplog' = Append(oplog, RaiseEntry(err))
    /\ IF c.name = "send_message"
       THEN /\ opc' = "returned"
            /\ oresult' = [kind |-> "dict", error |-> err.msg,
                           status |-> "failed"]
       ELSE IF c.name = "handle_agent"
       THEN AgentReport(err)
       ELSE /\ opc' = "raised"
            /\ oresult' = err

Idle == opc = "idle" /\ rpc = "idle" /\ wpc = "idle"

\* the operation calls _request(m, path) with the default retries
OpRequest(c, m, ep) ==
    /\ Idle
    /\ call' = c
    /\ RequestStart(m, DefaultRetries, ep)
    /\ opc' = "request"
    /\ oplog' = << RequestEntry(m) >>
    /\ UNCHANGED << cfgVars, peerVars, stream, content, waitVars, response, oresult >>

\* a write operation whose arguments pass: POST /posts.json
CallWrite ==
    /\ Idle
    /\ \E c \in WriteCalls \cup ClientCalls, w \in WriteResponses :
           /\ c.args = "ok"
           /\ EnforceAudienceFormat(c.raw, c.audience).kind = "str"
           /\ OpRequest(c, "POST", "write")
           /\ posted' = w

\* mutant of CallRejected: the limiters are acquired before the checks
CallRejectedAfterLimiters ==
    /\ Idle
    /\ \E c \in WriteCalls :
           /\ c.args # "ok" \/ EnforceAudienceFormat(c.raw, c.audience).kind # "str"
           /\ Idle
           /\ call' = c
           /\ OpRaise(c, IF c.args = "bad_recipients"
                         THEN Raise("ValueError", "Invalid recipients list")
                         ELSE EnforceAudienceFormat(c.raw, c.audience))
           /\ global_last' = now
           /\ write_last' = now
           /\ UNCHANGED << cfgVars, peerVars, now, reqVars, srvVars, waitVars, response >>

\* send_private_message raises ValueError for a bad recipients list, and
\* _enforce_audience_format raises BithubError for 'ai' content without JSON
CallRejected ==
    /\ Idle
    /\ \E c \in WriteCalls :
           /\ c.args # "ok" \/ EnforceAudienceFormat(c.raw, c.audience).kind # "str"
           /\ Idle
           /\ call' = c
           /\ OpRaise(c, IF c.args = "bad_recipients"
                         THEN Raise("ValueError", "Invalid recipients list")
                         ELSE EnforceAudienceFormat(c.raw, c.audience))
           /\ UNCHANGED << cfgVars, peerVars, now, limVars, reqVars, srvVars, waitVars, response >>

\* get_topic_posts, get_post, delete_post, delete_topic and the chat
\* operations: return self._request(...)
CallSimple ==
    /\ Idle
    /\ \E c \in SimpleCalls :
           /\ OpRequest(c, OpMethod(c.name), "other")
           /\ posted' = posted

\* mutant of CallDeployCore: the POST does not wait for the category check
CallDeployCoreUnchecked ==
    /\ Idle
    /\ \E c \in DeployCalls, w \in WriteResponses :
           /\ ~c.keywords
           /\ OpRequest(c, "POST", "write")
           /\ posted' = w

\* deploy_core(title, content, category_id): the registry lists the
\* category, or open() raises FileNotFoundError and the check is passed over
CallDeployCore ==
    /\ Idle
    /\ \E c \in DeployCalls, w \in WriteResponses :
           /\ ~c.keywords
           /\ c.args \in {"ok", "no_registry"}
           /\ OpRequest(c, "POST", "write")
           /\ posted' = w

\* deploy_core called with sync=, burn= or timeout=, which its signature
\* does not have (TypeError), or with a category the registry does not list
CallDeployCoreRejected ==
    /\ Idle
    /\ \E c \in DeployCalls :
           /\ c.keywords \/ c.args = "bad_category"
           /\ Idle
           /\ call' = c
           /\ OpRaise(c, IF c.keywords
                         THEN Raise("TypeError", "unexpected keyword argument")
                         ELSE Raise("BithubError", "Invalid category_id"))
           /\ UNCHANGED << cfgVars, peerVars, now, limVars, reqVars, srvVars, waitVars, response >>

\* watch_topic(topic_id, last_post_id, timeout): with a timeout of 0 or
\* less the loop test fails at once and None is returned; otherwise the
\* first statement of the loop body calls self.get_topic, a method that
\* neither BithubCores nor BithubComms defines
CallWatchTopic ==
    /\ Idle
    /\ \E c \in WatchCalls :
           /\ Idle
           /\ call' = c
           /\ IF 0 < c.timeout
              THEN OpRaise(c, Raise("AttributeError", "get_topic"))
              ELSE /\ opc' = "returned"
                   /\ oresult' = NoReply
                   /\ oplog' = oplog
           /\ UNCHANGED << cfgVars, peerVars, now, limVars, reqVars, srvVars, waitVars, response >>

\* the operation's _request has raised
RequestRaised ==
    /\ opc = "request"
    /\ rpc = "raised"
    /\ OpRaise(call, outcome)
    /\ RequestClosed
    /\ UNCHANGED << cfgVars, peerVars, now, limVars, srvVars, waitVars, call, response >>

\* response = self._request(...)
RequestReturned ==
    /\ opc = "request"
    /\ rpc = "returned"
    /\ response' = body
    /\ opc' = "responded"
    /\ RequestClosed
    /\ UNCHANGED << cfgVars, peerVars, now, limVars, srvVars, waitVars, call, oresult, oplog >>

\* mutant of WaitsForReply: only the post id is looked at
WaitsForReplyIdOnly ==
    /\ call.name \in WriteOps
    /\ call.sync
    /\ IdTruthy(response.id)

\* sync and both ids of the response are truthy
WaitsForReply ==
    /\ call.name \in WriteOps
    /\ call.sync
    /\ IdTruthy(response.topic_id)
    /\ IdTruthy(response.id)

\* return response: a simple operation, sync=False, or a response without
\* a truthy topic_id or id
ReturnResponse ==
    /\ opc = "responded"
    /\ call.name \in WriteOps \cup SimpleOps \cup {"send_message"}
    /\ ~WaitsForReply
    /\ opc' = "returned"
    /\ oresult' = response
    /\ UNCHANGED << cfgVars, peerVars, now, limVars, reqVars, srvVars, waitVars, call, response,
                    oplog >>

\* mutant of CallWait: the two ids change places
CallWaitSwapsIds ==
    /\ opc = "responded"
    /\ WaitsForReply
    /\ WaitStart(response.topic_id, call.timeout, call.poll_interval)
    /\ opc' = "wait"
    /\ oplog' = Append(oplog, WaitEntry(response.id, response.topic_id,
                                        call.timeout, call.poll_interval))
    /\ UNCHANGED << cfgVars, peerVars, call, response, oresult >>

\* return self.wait_for_reply(topic_id, post_id, timeout, poll_interval)
CallWait ==
    /\ opc = "responded"
    /\ WaitsForReply
    /\ WaitStart(response.id, call.timeout, call.poll_interval)
    /\ opc' = "wait"
    /\ oplog' = Append(oplog, WaitEntry(response.topic_id, response.id,
                                        call.timeout, call.poll_interval))
    /\ UNCHANGED << cfgVars, peerVars, call, response, oresult >>

\* wait_for_reply has returned: its result is the operation's
WaitReturned ==
    /\ opc = "wait"
    /\ wpc = "returned"
    /\ call.name \in WriteOps
    /\ opc' = "returned"
    /\ oresult' = wresult
    /\ UNCHANGED << cfgVars, peerVars, now, limVars, reqVars, srvVars, waitVars, call, response,
                    oplog >>

\* wait_for_reply has raised
WaitRaised ==
    /\ opc = "wait"
    /\ wpc = "raised"
    /\ OpRaise(call, wresult)
    /\ UNCHANGED << cfgVars, peerVars, now, limVars, reqVars, srvVars, waitVars, call, response >>

\* deploy_core: return {"topic_id": resp['topic_id'], "post_id": resp['id']}
DeployReturn ==
    /\ opc = "responded"
    /\ call.name = "deploy_core"
    /\ IF response.topic_id = Missing \/ response.id = Missing
       THEN OpRaise(call, Raise("KeyError", "topic_id"))
       ELSE /\ opc' = "returned"
            /\ oresult' = [kind |-> "ids", topic_id |-> response.topic_id,
                           post_id |-> response.id]
            /\ oplog' = oplog
    /\ UNCHANGED << cfgVars, peerVars, now, limVars, reqVars, srvVars, waitVars, call, response >>

\* the operation's result reaches its caller and the process ends
OpExit ==
    /\ opc \in {"returned", "raised"}
    /\ Reset

\* the topic of the operation gets posts once the write has made it
ReplyPosted == opc = "wait" /\ ServerPost
ReplyCommitted == opc = "wait" /\ ServerCommit

\* what the server answers the requests of an operation with: here every
\* request ends at its first attempt
OpStatuses == {200, 401, 404}
\* a Retry-After text that int() rejects, or one that time.sleep rejects
OpBadHeaders == { <<"W", "e", "d">>, <<"-", "1">> }

\* the steps of the client while an operation is running
OpStep ==
    \/ RequestRaised
    \/ RequestReturned
    \/ ReturnResponse
    \/ CallWait
    \/ WaitReturned
    \/ WaitRaised
    \/ DeployReturn
    \/ PollBegin
    \/ TimedOut
    \/ FetchRaised
    \/ TopicNew
    \/ TopicOld
    \/ PostFound
    \/ PostEmpty
    \/ Ok(OpStatuses)
    \/ Auth(OpStatuses)
    \/ Other(OpStatuses)
    \/ RateLimitedBadHeader(OpBadHeaders)

OpNext ==
    \/ CallWrite
    \/ CallRejected
    \/ CallSimple
    \/ CallDeployCore
    \/ CallDeployCoreRejected
    \/ CallWatchTopic
    \/ OpStep
    \/ OpExit
    \/ ReplyPosted
    \/ ReplyCommitted

OpSpec == Init /\ [][OpNext]_vars

(* ------------------- _enforce_audience_format alone ------------------- *)

FormatCalls ==
    { [name |-> "_enforce_audience_format", sync |-> FALSE, burn |-> FALSE,
       keywords |-> FALSE, timeout |-> 0, poll_interval |-> 0, args |-> "ok",
       raw |-> b, length |-> Len(b), audience |-> a, category |-> NoCategory] :
        b \in Joined(MaxSegments), a \in Audiences }

\* comms._enforce_audience_format(content, audience)
CallEnforceFormat ==
    /\ Idle
    /\ \E c \in FormatCalls :
           /\ Idle
           /\ call' = c
           /\ LET r == EnforceAudienceFormat(c.raw, c.audience)
              IN  IF r.kind = "str"
                  THEN /\ opc' = "returned"
                       /\ oresult' = r
                       /\ oplog' = oplog
                  ELSE OpRaise(c, r)
           /\ UNCHANGED << cfgVars, peerVars, now, limVars, reqVars, srvVars, waitVars, response >>

FormatNext ==
    \/ CallEnforceFormat
    \/ OpExit

FormatSpec == Init /\ [][FormatNext]_vars

(* ------------------------ the CLI: handle_agent ------------------------ *)

\* sanitize_html on the texts the server of this model holds: nothing for
\* an empty text, otherwise the text with its tags removed and stripped
SanitizeHtml(text) ==
    CASE text = "" -> ""
      [] text = "<p>reply</p>" -> "reply"
      [] OTHER -> text

\* `bithub agent <bot_username> <message> --timeout T`
AgentCalls ==
    { [name |-> "handle_agent", sync |-> FALSE, burn |-> FALSE,
       keywords |-> FALSE, timeout |-> t, poll_interval |-> DefaultPollInterval,
       args |-> "ok", raw |-> PlainBody.raw, length |-> PlainBody.length,
       audience |-> "human", category |-> NoCategory] : t \in Timeouts }

\* comms.send_private_message([args.bot_username], title, args.message):
\* one recipient, audience 'human', sync=False, so the POST is made
CallHandleAgent ==
    /\ Idle
    /\ \E c \in AgentCalls, w \in WriteResponses :
           /\ OpRequest(c, "POST", "write")
           /\ posted' = w

\* resp['topic_id'] or resp['id'] of a response without the key
AgentKeyError ==
    /\ opc = "responded"
    /\ call.name = "handle_agent"
    /\ response.topic_id = Missing \/ response.id = Missing
    /\ OpRaise(call, Raise("KeyError", IF response.topic_id = Missing
                                       THEN "topic_id" ELSE "id"))
    /\ UNCHANGED << cfgVars, peerVars, now, limVars, reqVars, srvVars, waitVars, call,
                    response >>

\* mutant of AgentWait: a fixed timeout instead of args.timeout
AgentWaitFixedTimeout ==
    /\ opc = "responded"
    /\ call.name = "handle_agent"
    /\ response.topic_id # Missing
    /\ response.id # Missing
    /\ WaitStart(response.id, 3, DefaultPollInterval)
    /\ opc' = "wait"
    /\ oplog' = Append(oplog, WaitEntry(response.topic_id, response.id,
                                        3, DefaultPollInterval))
    /\ UNCHANGED << call, response, oresult >>

\* reply = comms.wait_for_reply(topic_id, my_post_id, timeout=args.timeout)
AgentWait ==
    /\ opc = "responded"
    /\ call.name = "handle_agent"
    /\ response.topic_id # Missing
    /\ response.id # Missing
    /\ WaitStart(response.id, call.timeout, DefaultPollInterval)
    /\ opc' = "wait"
    /\ oplog' = Append(oplog, WaitEntry(response.topic_id, response.id,
                                        call.timeout, DefaultPollInterval))
    /\ UNCHANGED << call, response, oresult >>

\* `if reply:` prints the sanitized cooked, or raw when cooked is empty,
\* and handle_agent returns; `else: sys.exit(1)` with nothing printed
AgentReplied ==
    /\ opc = "wait"
    /\ wpc = "returned"
    /\ call.name = "handle_agent"
    /\ IF wresult # NoReply
       THEN /\ opc' = "returned"
            /\ oresult' = [kind |-> "None",
                           stdout |-> << SanitizeHtml(
                               IF Truthy(wresult.cooked) THEN wresult.cooked
                               ELSE wresult.raw) >>]
       ELSE /\ opc' = "raised"
            /\ oresult' = SystemExit(1, << >>)
    /\ UNCHANGED << cfgVars, peerVars, now, limVars, reqVars, srvVars, waitVars, call,
                    response, oplog >>

\* what the server answers handle_agent's requests with: the send may be
\* retried for a 429 or a transport failure, each request of the wait ends
\* at its first attempt
AgentStatuses == {200, 401, 404}
AgentHeaders == {NoHeader}
SendRateLimited == opc = "request" /\ RateLimited(AgentHeaders)
SendRateLimitedLast == opc = "request" /\ RateLimitedLast(AgentHeaders)
SendTransportException == opc = "request" /\ TransportException
SendTransportExceptionLast == opc = "request" /\ TransportExceptionLast

AgentNext ==
    \/ CallHandleAgent
    \/ RequestRaised
    \/ RequestReturned
    \/ AgentKeyError
    \/ AgentWait
    \/ AgentReplied
    \/ WaitRaised
    \/ PollBegin
    \/ TimedOut
    \/ FetchRaised
    \/ TopicNew
    \/ TopicOld
    \/ PostFound
    \/ PostEmpty
    \/ Ok(AgentStatuses)
    \/ Auth(AgentStatuses)
    \/ Other(AgentStatuses)
    \/ SendRateLimited
    \/ SendRateLimitedLast
    \/ RateLimitedBadHeader(OpBadHeaders)
    \/ SendTransportException
    \/ SendTransportExceptionLast
    \/ OpExit
    \/ ReplyPosted
    \/ ReplyCommitted

AgentSpec == Init /\ [][AgentNext]_vars

(* -------------------- BithubJanitor.nuke_category ---------------------- *)

TopicIds == 101..(100 + MaxTopics)

\* what the server may answer GET /c/<id>.json with: no topic list at all,
\* or a list of at most MaxTopics topics, each with its id
Listings ==
    { [listed |-> FALSE, topics |-> << >>] } \cup
    { [listed |-> TRUE, topics |-> l] :
        l \in { t \in UNION { [1..n -> TopicIds] : n \in 0..MaxTopics } :
                  \A i, j \in DOMAIN t : i # j => t[i] # t[j] } }

\* response.get("topic_list", {}).get("topics", [])
TopicList(resp) == IF resp.listed THEN resp.topics ELSE << >>

\* nuke_category(category_id, delay)
NukeCalls ==
    { [name |-> "nuke_category", category |-> 5, delay |-> d] :
        d \in {0, DefaultDelay} }

DeleteEntry(t_id) == [fn |-> "delete_topic", id |-> t_id]
SleepEntry(seconds) == [fn |-> "sleep", seconds |-> seconds]
LogEntry(err) == [fn |-> "log", error |-> err]

\* the delete_topic calls and the sleeps made so far
Deleted == SelectSeq(oplog, LAMBDA e : e.fn = "delete_topic")
Slept == SelectSeq(oplog, LAMBDA e : e.fn = "sleep")

\* response = self._request("GET", f"/c/{category_id}.json")
CallNukeCategory ==
    /\ Idle
    /\ \E c \in NukeCalls, l \in Listings :
           /\ call' = c
           /\ posted' = l
           /\ RequestStart("GET", DefaultRetries, "category")
           /\ opc' = "fetch"
           /\ oplog' = << RequestEntry("GET") >>
           /\ UNCHANGED << cfgVars, peerVars, stream, content, waitVars, response,
                           oresult >>

\* the fetch has raised: the outer `except Exception` logs and
\* nuke_category returns
NukeFetchRaised ==
    /\ opc = "fetch"
    /\ rpc = "raised"
    /\ opc' = "returned"
    /\ oresult' = NoReply
    /\ oplog' = Append(oplog, LogEntry(outcome))
    /\ RequestClosed
    /\ UNCHANGED << cfgVars, peerVars, now, limVars, srvVars, waitVars, call, response >>

\* the fetch has returned: `if not topic_list: return`, else the loop
NukeFetched ==
    /\ opc = "fetch"
    /\ rpc = "returned"
    /\ response' = body
    /\ IF TopicList(body) = << >>
       THEN /\ opc' = "returned"
            /\ oresult' = NoReply
       ELSE /\ opc' = "loop"
            /\ oresult' = oresult
    /\ RequestClosed
    /\ UNCHANGED << cfgVars, peerVars, now, limVars, srvVars, waitVars, call, oplog >>

\* the next topic of the list: self.delete_topic(t_id), a DELETE request
NukeDelete ==
    /\ opc = "loop"
    /\ rpc = "idle"
    /\ Len(Deleted) < Len(TopicList(response))
    /\ RequestStart("DELETE", DefaultRetries, "other")
    /\ opc' = "delete"
    /\ oplog' = Append(oplog,
                       DeleteEntry(TopicList(response)[Len(Deleted) + 1]))
    /\ UNCHANGED << cfgVars, peerVars, srvVars, waitVars, call, response, oresult >>

\* mutant of NukeDeleted: a failed deletion ends the loop
NukeDeletedStopsAtFailure ==
    /\ opc = "delete"
    /\ rpc \in {"returned", "raised"}
    /\ now' = now + call.delay * TicksPerSecond
    /\ oplog' = IF rpc = "raised"
                THEN oplog \o << LogEntry(outcome), SleepEntry(call.delay) >>
                ELSE Append(oplog, SleepEntry(call.delay))
    /\ IF Len(Deleted) < Len(TopicList(response)) /\ rpc = "returned"
       THEN /\ opc' = "loop"
            /\ oresult' = oresult
       ELSE /\ opc' = "returned"
            /\ oresult' = NoReply
    /\ RequestClosed
    /\ UNCHANGED << cfgVars, peerVars, limVars, srvVars, waitVars, call, response >>

\* delete_topic has returned, or has raised and the inner `except
\* Exception` has logged it; then time.sleep(delay) and the next topic, or
\* the end of the list
NukeDeleted ==
    /\ opc = "delete"
    /\ rpc \in {"returned", "raised"}
    /\ now' = now + call.delay * TicksPerSecond
    /\ oplog' = IF rpc = "raised"
                THEN oplog \o << LogEntry(outcome), SleepEntry(call.delay) >>
                ELSE Append(oplog, SleepEntry(call.delay))
    /\ IF Len(Deleted) < Len(TopicList(response))
       THEN /\ opc' = "loop"
            /\ oresult' = oresult
       ELSE /\ opc' = "returned"
            /\ oresult' = NoReply
    /\ RequestClosed
    /\ UNCHANGED << cfgVars, peerVars, limVars, srvVars, waitVars, call, response >>

\* what the server answers the janitor's requests with
NukeStatuses == {200, 403, 404}

NukeNext ==
    \/ CallNukeCategory
    \/ NukeFetchRaised
    \/ NukeFetched
    \/ NukeDelete
    \/ NukeDeleted
    \/ Ok(NukeStatuses)
    \/ Auth(NukeStatuses)
    \/ Other(NukeStatuses)
    \/ RateLimitedBadHeader(OpBadHeaders)
    \/ OpExit

NukeSpec == Init /\ [][NukeNext]_vars

(* ======================= properties of _request ======================= *)

RECURSIVE Pow2(_)
Pow2(n) == IF n <= 0 THEN 1 ELSE 2 * Pow2(n - 1)

Is2xx(status) == status >= 200 /\ status < 300
Retryable(status) == status = 429 \/ status >= 500
Attempts == Len(trace)
Ended == rpc \in {"returned", "raised"}
LastSleep == IF sleeps = << >> THEN -1 ELSE sleeps[Len(sleeps)]
\* the latest attempt was the last one the retry budget allows
FinalAttempt == Attempts = retries
HeaderSeconds(header) == IF header = NoHeader THEN -1 ELSE IntValue(header)

\* C1: when the first N-1 attempts of a call got 429 or 5xx and the N-th got
\* a 2xx, the call has returned the body after exactly N attempts and N-1
\* sleeps, nothing follows a 2xx, and after 5xx failures only the sleeps are
\* 1, 2, 4, ..., 2^(N-2) in that order.
C1_SuccessAfterRetryableFailures ==
    /\ \A i \in 1..(Attempts - 1) : ~Is2xx(trace[i])
    /\ ( /\ Attempts >= 1
         /\ Is2xx(trace[Attempts])
         /\ \A i \in 1..(Attempts - 1) : Retryable(trace[i]) )
       => /\ rpc = "returned"
          /\ outcome.kind = "body"
          /\ calls = Attempts
          /\ Attempts <= retries
          /\ Len(sleeps) = Attempts - 1
          /\ last.slept = -1
          /\ (\A i \in 1..(Attempts - 1) : trace[i] >= 500)
             => sleeps = [i \in 1..(Attempts - 1) |-> Pow2(i - 1)]

C1_Witness ==
    /\ rpc = "returned"
    /\ retries = 3
    /\ trace = << 500, 503, 200 >>
    /\ sleeps = << 1, 2 >>

\* C2: an attempt that gets 401 or 403 is the call's last one: the call has
\* raised BithubAuthError, with no sleep on that attempt; a 401/403 on the
\* first attempt means one attempt and no sleep at all.
C2_AuthFailureNeverRetried ==
    \A i \in 1..Attempts :
        trace[i] \in {401, 403}
        => /\ i = Attempts
           /\ rpc = "raised"
           /\ outcome.kind = "BithubAuthError"
           /\ calls = i
           /\ last.slept = -1
           /\ Len(sleeps) = i - 1

C2_Witness ==
    /\ retries = 3
    /\ trace \in { << 401 >>, << 403 >> }
    /\ calls = 1
    /\ sleeps = << >>
    /\ outcome.kind = "BithubAuthError"

\* C3 (as claimed): a 429 on the last allowed attempt raises
\* BithubRateLimitError with no sleep after it, and a call that got 429 on
\* every attempt made exactly `retries` attempts and returned nothing.
C3_RateLimitExhausted ==
    /\ (Attempts >= 1 /\ FinalAttempt /\ trace[Attempts] = 429)
       => /\ rpc = "raised"
          /\ outcome.kind = "BithubRateLimitError"
          /\ last.slept = -1
          /\ Len(sleeps) = retries - 1
    /\ (Ended /\ \A i \in 1..Attempts : trace[i] = 429)
       => /\ calls = retries
          /\ outcome.kind # "body"

\* C4: a call whose `retries` attempts all got a 5xx has made exactly
\* `retries` attempts and raised BithubNetworkError "Max retries exceeded";
\* a budget used up on 5xx and transport failures never ends in a body.
C4_ServerErrorsExhausted ==
    /\ (rpc # "idle" /\ FinalAttempt /\ \A i \in 1..Attempts : trace[i] >= 500)
       => /\ rpc = "raised"
          /\ outcome = Raise("BithubNetworkError", "Max retries exceeded")
          /\ calls = retries
    /\ ( /\ rpc # "idle"
         /\ FinalAttempt
         /\ \A i \in 1..Attempts : trace[i] >= 500 \/ trace[i] = TransportFailure )
       => /\ rpc = "raised"
          /\ outcome.kind = "BithubNetworkError"

C4_Witness ==
    /\ retries = 3
    /\ trace = << 503, 500, 503 >>
    /\ outcome = Raise("BithubNetworkError", "Max retries exceeded")

\* C5: a transport failure before the final attempt is followed by a sleep
\* of the current backoff, which is 1 at the first failure and doubles with
\* every failed attempt, and by another attempt; on the final attempt it
\* raises BithubNetworkError "Network error after N retries" with no sleep.
C5_TransportFailure ==
    (Attempts >= 1 /\ trace[Attempts] = TransportFailure)
    => IF ~FinalAttempt
       THEN /\ rpc = "loop"
            /\ last.backoff = Pow2(Attempts - 1)
            /\ last.slept = last.backoff
            /\ LastSleep = last.slept
            /\ Len(sleeps) = Attempts
            /\ backoff = BackoffFactor * last.backoff
       ELSE /\ rpc = "raised"
            /\ outcome = Raise("BithubNetworkError", "Network error after retries")
            /\ last.slept = -1
            /\ Len(sleeps) = Attempts - 1

C5_Witness ==
    /\ retries = 3
    /\ trace = << TransportFailure, TransportFailure, TransportFailure >>
    /\ sleeps = << 1, 2 >>
    /\ outcome = Raise("BithubNetworkError", "Network error after retries")

\* C6 (as claimed): a response that is not 2xx and not 401, 403, 429 or 5xx
\* (400, 404, and any 3xx) raises the base BithubError on that attempt, with
\* no sleep and no retry.
C6_OtherStatusRaisesBithubError ==
    \A i \in 1..Attempts :
        ( /\ trace[i] # TransportFailure
          /\ ~Is2xx(trace[i])
          /\ trace[i] \notin {401, 403, 429}
          /\ ~(trace[i] >= 500) )
        => /\ i = Attempts
           /\ rpc = "raised"
           /\ outcome.kind = "BithubError"
           /\ last.slept = -1

Max(a, b) == IF a > b THEN a ELSE b

\* C7 (as claimed): the sleep after a 429 before the final attempt is
\* max(Retry-After, backoff), and backoff is doubled after it.
C7_SleepsMaxOfHeaderAndBackoff ==
    (Attempts >= 1 /\ trace[Attempts] = 429 /\ last.slept >= 0)
    => /\ last.slept = Max(HeaderSeconds(last.header), last.backoff)
       /\ backoff = BackoffFactor * last.backoff

\* C7 (amended): whenever the call sleeps after a 429, the sleep is the
\* Retry-After value when the header is present, also when that is less
\* than the backoff, and the backoff when it is absent; backoff is doubled
\* after it and the call goes on to the next attempt.
C7_SleepsHeaderElseBackoff ==
    (Attempts >= 1 /\ trace[Attempts] = 429 /\ last.slept >= 0)
    => /\ ~FinalAttempt
       /\ last.slept = IF last.header = NoHeader
                       THEN last.backoff
                       ELSE HeaderSeconds(last.header)
       /\ backoff = BackoffFactor * last.backoff
       /\ rpc = "loop"

\* a 429 on the second attempt whose Retry-After (0) is below the backoff (2)
C7_Witness ==
    /\ Attempts = 2
    /\ trace[2] = 429
    /\ last.header = << "0" >>
    /\ last.backoff = 2
    /\ last.slept = 0
    /\ backoff = 4

\* C8: when another attempt follows a 429, the sleep before it was exactly
\* the number in the Retry-After header if the response carried one,
\* whatever the backoff, and the current backoff if it carried none.
C8_RetryAfterVerbatim ==
    (Attempts >= 1 /\ trace[Attempts] = 429 /\ rpc = "loop")
    => /\ Len(sleeps) = Attempts
       /\ last.header # NoHeader
          => /\ IntParses(last.header)
             /\ LastSleep = IntValue(last.header)
       /\ last.header = NoHeader => LastSleep = last.backoff

\* a Retry-After of 10 on the first attempt, when the backoff is 1
C8_Witness ==
    /\ rpc = "loop"
    /\ trace = << 429 >>
    /\ last.header = << "1", "0" >>
    /\ last.backoff = 1
    /\ sleeps = << 10 >>

(* ==================== properties of wait_for_reply ==================== *)

WaitEnded == wpc \in {"returned", "raised"}

C10_ReplyReturnedAtOnce ==
    found # NoPost
    => /\ wpc = "returned"
       /\ wresult = found
       /\ found.id > last_post_id
       /\ rpc = "idle"
       /\ Len(wsleeps) = polls - 1

\* the reply (raw text only) turns up at the second poll
C10_Witness ==
    /\ wpc = "returned"
    /\ polls = 2
    /\ wsleeps = << poll_interval >>
    /\ wresult.kind = "post"
    /\ wresult.cooked = ""
    /\ wresult.raw # ""
    /\ wresult = found

\* C11: when the post fetched for a new last stream id has empty cooked and
\* empty raw text, wait_for_reply returns nothing: it sleeps 2 seconds
\* whatever poll_interval is and is back at the loop's test; from the test,
\* before the deadline, its next step is a fetch of the stream; and a wait
\* that saw a new id but never fetched content ends, by returning None
\* unless a fetch raised.
C11_EmptyReplyKeepsPolling ==
    /\ [][ ( /\ wpc = "post"
             /\ rpc = "returned"
             /\ body.cooked = ""
             /\ body.raw = ""
             /\ wpc' # wpc )
           => /\ wpc' = "check"
              /\ wresult' = NoResult
              /\ now' = now + EmptyReplyDelay * TicksPerSecond
              /\ wsleeps' = Append(wsleeps, EmptyReplyDelay)
              /\ polls' = polls ]_vars
    /\ [][ ( /\ wpc = "check"
             /\ (now - start_time) < timeout * TicksPerSecond
             /\ wpc' # wpc )
           => /\ wpc' = "topic"
              /\ endpoint' = "topic"
              /\ polls' = polls + 1 ]_vars
    /\ [](wpc = "returned" /\ found = NoPost => wresult = NoReply)
    /\ (sawNew /\ wpc = "check") ~> (WaitEnded \/ found # NoPost)

\* two polls that both fetch a post without content, two sleeps of 2
\* seconds with a poll interval of 1, then None
C11_Witness ==
    /\ wpc = "returned"
    /\ wresult = NoReply
    /\ sawNew
    /\ polls = 2
    /\ poll_interval = 1
    /\ wsleeps = << EmptyReplyDelay, EmptyReplyDelay >>

\* C12: a post fetch starts only from a poll's stream fetch and asks for the
\* last entry of the stream that fetch returned, an id above last_post_id;
\* when it ends the poll is over (back at the loop's test, or the wait has
\* ended), so a poll fetches at most one post; a stream fetch starts only at
\* the loop's test; and what the wait returns, if not None, is the post of
\* that last entry, with non-empty cooked or raw text. No other entry of the
\* stream is asked for, whatever the last entry's content.
C12_OnlyLastEntryInspected ==
    /\ [][ (wpc' = "post" /\ wpc # "post")
           => /\ wpc = "topic"
              /\ body.kind = "topic"
              /\ body.stream # << >>
              /\ new_post_id' = body.stream[Len(body.stream)]
              /\ new_post_id' > last_post_id
              /\ endpoint' = "post"
              /\ polls' = polls ]_vars
    /\ [][ (wpc = "post" /\ wpc' # "post")
           => wpc' \in {"check", "returned", "raised"} ]_vars
    /\ [][ (wpc' = "topic" /\ wpc # "topic")
           => wpc = "check" /\ polls' = polls + 1 ]_vars
    /\ [][ new_post_id' # new_post_id => (wpc' = "post" \/ wpc' = "idle") ]_vars
    /\ [](endpoint = "post" => wpc = "post")
    /\ [](rpc = "returned" /\ endpoint = "post" => body.id = new_post_id)
    /\ []( (wpc = "returned" /\ wresult # NoReply)
           => /\ wresult.kind = "post"
              /\ wresult.id = new_post_id
              /\ wresult.id > last_post_id
              /\ (wresult.cooked # "" \/ wresult.raw # "") )

\* the stream holds two new posts, the older one with content and the last
\* one without: only the last one was fetched, and the wait is polling on
C12_Witness ==
    /\ wpc = "check"
    /\ last_post_id = 0
    /\ stream = << 1, 2 >>
    /\ content[1] # EmptyContent
    /\ content[2] = EmptyContent
    /\ new_post_id = 2
    /\ polls = 1
    /\ wsleeps = << EmptyReplyDelay >>

\* seconds since wait_for_reply was entered, in ticks
Elapsed == now - start_time
\* the longest a get_topic_posts that returns can take: one wait of the
\* global limiter with its jitter, and the backoffs 1 + 2 + 4 before the
\* fourth attempt
LongestFetch ==
    Interval(GlobalCallsPerMinute) + 1
    + (Pow2(DefaultRetries - 1) - 1) * TicksPerSecond

C14_DeadlineCheckedAtLoopTestOnly ==
    /\ []( (wpc # "idle" /\ timeout <= 0)
           => /\ polls = 0
              /\ rpc = "idle"
              /\ calls = 0
              /\ wpc \in {"check", "returned"}
              /\ wpc = "returned" => wresult = NoReply )
    /\ (wpc = "check" /\ timeout <= 0) ~> (wpc = "returned" /\ wresult = NoReply)
    /\ [][ (wpc' = "returned" /\ wpc # "returned" /\ wresult' = NoReply)
           => /\ wpc = "check"
              /\ Elapsed >= timeout * TicksPerSecond ]_vars
    /\ [][ ( /\ wpc = "post"
             /\ rpc = "returned"
             /\ (body.cooked # "" \/ body.raw # "")
             /\ wpc' # wpc )
           => /\ wpc' = "returned"
              /\ wresult' = body ]_vars
    /\ (wpc \in {"topic", "post"}) ~> (wpc \in {"check", "returned", "raised"})

\* the reply is fetched in the first iteration, which the backoff of failed
\* attempts has carried past the 3-second deadline, and is returned
C14_Witness ==
    /\ wpc = "returned"
    /\ wresult.kind = "post"
    /\ timeout = 3
    /\ polls = 1
    /\ Elapsed > timeout * TicksPerSecond

\* C15: when the topic fetch or the post fetch of a poll has raised, the
\* wait's next step raises that same error, at once and without another
\* poll; a wait that raised does nothing more; and no wait returns (None or
\* a post) out of a failed fetch.
C15_FetchErrorEscapes ==
    /\ [][ ( /\ wpc \in {"topic", "post"}
             /\ rpc = "raised"
             /\ outcome.kind \in ErrorKinds
             /\ wpc' # wpc )
           => /\ wpc' = "raised"
              /\ wresult' = outcome
              /\ polls' = polls
              /\ now' = now ]_vars
    /\ [][ (wpc' = "raised" /\ wpc # "raised")
           => wpc \in {"topic", "post"} /\ rpc = "raised" ]_vars
    /\ [][ (wpc' = "returned" /\ wpc # "returned") => rpc # "raised" ]_vars
    /\ [][ wpc = "raised"
           => \/ wpc' = "idle"
              \/ wpc' = "raised" /\ wresult' = wresult /\ polls' = polls
                 /\ rpc' = "idle" ]_vars
    /\ [](wpc = "raised" => wresult # NoReply /\ rpc = "idle")

\* the second poll's post fetch got 503 three times and then 429: the wait
\* has raised BithubRateLimitError
C15_Witness ==
    /\ wpc = "raised"
    /\ wresult = Raise("BithubRateLimitError", "Rate limit exceeded")
    /\ polls = 2
    /\ sawNew
    /\ new_post_id > last_post_id

(* ===================== properties of the limiters ===================== *)

\* random.uniform(0, jitter * interval) with jitter 0.1, rounded up to ticks
JitterTicks(interval) == (interval + 9) \div 10

\* what one RateLimiter.wait() did, from the clock at its entry, last_call
\* before and after it: the distance of the two last_call is at least the
\* interval; if less than the interval had elapsed the sleep (the return
\* time less the entry time) is between interval - elapsed and that plus
\* the jitter; otherwise it returns at once
WaitKeepsInterval(entry, before, after, interval) ==
    LET elapsed == entry - before
    IN  /\ after - before >= interval
        /\ after >= entry
        /\ IF elapsed < interval
           THEN /\ after - entry >= interval - elapsed
                /\ after - entry <= interval - elapsed + JitterTicks(interval)
           ELSE after = entry

\* C17: every wait() of the global and of the write limiter of a client
\* that issues its requests one after another records a last_call at least
\* `interval` after the one recorded before, and a wait() that has to sleep
\* sleeps at least interval - elapsed and at most that plus jitter * interval.
C17_ConsecutiveWaitsOneIntervalApart ==
    /\ [][ global_last' # global_last
           => WaitKeepsInterval(now, global_last, global_last',
                                Interval(GlobalCallsPerMinute)) ]_vars
    /\ [][ write_last' # write_last
           => WaitKeepsInterval(global_last', write_last, write_last',
                                Interval(WriteCallsPerMinute)) ]_vars

\* a write request right after another: the write limiter was entered less
\* than its interval after its last_call and has slept
C17_Witness ==
    /\ rpc = "loop"
    /\ calls = 0
    /\ method \in WriteMethods
    /\ global_last > Epoch
    /\ write_last > global_last
    /\ now = write_last

\* C18: a _request with POST, PUT or DELETE has, before its first attempt,
\* acquired the global limiter at the clock of the call and then the write
\* limiter at the time the global one returned; one with another method has
\* acquired the global limiter only and write_last is as before; and no
\* step of a running request touches a limiter.
C18_GlobalThenWriteLimiter ==
    /\ [][ (rpc = "idle" /\ rpc' # "idle")
           => /\ calls' = 0
              /\ trace' = << >>
              /\ global_last' = now \/ global_last' >= global_last
                                         + Interval(GlobalCallsPerMinute)
              /\ global_last' >= now
              /\ IF method' \in {"POST", "PUT", "DELETE"}
                 THEN /\ write_last' >= global_last'
                      /\ now' = write_last'
                      /\ \/ write_last' = global_last'
                            /\ global_last' - write_last
                                 >= Interval(WriteCallsPerMinute)
                         \/ write_last' - write_last
                                 >= Interval(WriteCallsPerMinute)
                            /\ write_last' - write_last
                                 <= Interval(WriteCallsPerMinute) + 1
                 ELSE /\ write_last' = write_last
                      /\ now' = global_last' ]_vars
    /\ [][ rpc # "idle"
           => global_last' = global_last /\ write_last' = write_last ]_vars

\* a DELETE right after another write: the global limiter returned first,
\* the write limiter a whole write interval after its last_call
C18_Witness ==
    /\ method = "DELETE"
    /\ rpc = "loop"
    /\ calls = 0
    /\ global_last = Epoch + Interval(GlobalCallsPerMinute)
    /\ write_last = Epoch + Interval(WriteCallsPerMinute)

(* ================= properties of the client's operations =============== *)

OpEnded == opc \in {"returned", "raised"}
Requests == { i \in 1..Len(oplog) : oplog[i].fn = "_request" }
Waits == { i \in 1..Len(oplog) : oplog[i].fn = "wait_for_reply" }
Raises == { i \in 1..Len(oplog) : oplog[i].fn = "raise" }
\* the wait_for_reply call a sync write makes out of its response
HandOver ==
    WaitEntry(response.topic_id, response.id, call.timeout, call.poll_interval)

\* C16 (as claimed): a create_topic, send_private_message or reply_to_post
\* that got the response of its write has made one POST; with sync=True it
\* then calls wait_for_reply once, with the response's topic_id and id and
\* the caller's timeout and poll_interval, and returns its result; with
\* sync=False it returns the response and polls nothing.
C16_SyncWritesOnceThenWaits ==
    (call.name \in WriteOps /\ opc \in {"wait", "returned"})
    => IF call.sync
       THEN /\ oplog = << RequestEntry("POST"), HandOver >>
            /\ opc = "returned" => oresult = wresult
       ELSE /\ oplog = << RequestEntry("POST") >>
            /\ oresult = response
            /\ polls = 0

\* C16 (amended): as claimed when the response carries a truthy topic_id
\* and a truthy id; with sync=True and a response in which one of them is
\* absent or 0, the operation returns the response as with sync=False,
\* without any poll. No operation makes a second write, and none waits
\* before its write has returned.
C16_SyncWaitsOnlyWithIds ==
    call.name \in WriteOps
    => /\ Cardinality(Requests) <= 1
       /\ Cardinality(Waits) <= 1
       /\ Waits # {} => (response # NoBody /\ Requests = {1} /\ Waits = {2})
       /\ opc \in {"wait", "returned"}
          => IF call.sync /\ IdTruthy(response.topic_id) /\ IdTruthy(response.id)
             THEN /\ oplog = << RequestEntry("POST"), HandOver >>
                  /\ last_post_id = response.id
                  /\ timeout = call.timeout
                  /\ poll_interval = call.poll_interval
                  /\ opc = "returned" => oresult = wresult
             ELSE /\ oplog = << RequestEntry("POST") >>
                  /\ oresult = response
                  /\ polls = 0
                  /\ wpc = "idle"

\* create_topic with sync, timeout 3 and poll interval 3: the write was
\* answered with topic 8 and post 1, and the reply found by the wait on
\* (8, 1, 3, 3) is what the operation returned
C16_Witness ==
    /\ opc = "returned"
    /\ call.name = "create_topic"
    /\ call.sync
    /\ call.timeout = 3
    /\ call.poll_interval = 3
    /\ oplog = << RequestEntry("POST"), WaitEntry(8, 1, 3, 3) >>
    /\ oresult.kind = "post"
    /\ oresult.id = 2

\* the operations of the client layer: those of BithubComms and
\* BithubClient.send_message
ClientLayerOps == WriteOps \cup SimpleOps \cup {"send_message"}

\* C19 (as claimed): an operation of the client layer in which something
\* failed has raised, and what it raised is one of the four Bithub errors:
\* nothing else escapes, and no dict, list or None is returned instead.
C19_OnlyBithubErrorsEscape ==
    call.name \in ClientLayerOps
    => /\ opc = "raised" => oresult.kind \in ErrorKinds
       /\ (OpEnded /\ Raises # {})
          => /\ opc = "raised"
             /\ oresult.kind \in ErrorKinds

\* deletes of a topic issued by the operation
Deletes == { i \in Requests : oplog[i].method = "DELETE" }
\* the operation's wait has returned a reply
GotReply == Waits # {} /\ wpc = "returned" /\ wresult # NoReply

\* C20 (as claimed): deploy_core called with burn carries the deployment
\* out (it takes the argument and starts with the write, unless the
\* category is refused); it deletes the created topic at most once, and it
\* has deleted it when it ends after a synchronous wait that returned a
\* reply, and only then.
C20_BurnDeletesOnceAfterReply ==
    (call.name = "deploy_core" /\ call.burn /\ OpEnded)
    => /\ Cardinality(Deletes) <= 1
       /\ Deletes # {} <=> (call.sync /\ GotReply /\ opc = "returned")
       /\ Requests = {} => oresult.kind = "BithubError"

\* calls of watch_topic made by the operation
Watches == { i \in 1..Len(oplog) : oplog[i].fn = "watch_topic" }
WatchEntry(tid, lp, t) ==
    [fn |-> "watch_topic", topic_id |-> tid, last_post_id |-> lp,
     timeout |-> t]

\* C21 (as claimed): deploy_core on a category the registry lists takes
\* the sync argument and performs the deployment, one POST. With sync=True
\* it then calls watch_topic with the deployed topic_id and post_id and
\* the given timeout and returns what watch_topic returned; with
\* sync=False it returns the descriptor of the deployment, topic_id,
\* post_id and status 'deployed', and has polled nothing.
C21_SyncDeployThenWatch ==
    (call.name = "deploy_core" /\ call.args = "ok" /\ ~call.burn /\ OpEnded)
    => /\ Requests = {1}
       /\ oplog[1] = RequestEntry("POST")
       /\ opc = "returned"
          => IF call.sync
             THEN /\ Watches = {2}
                  /\ oplog[2] = WatchEntry(response.topic_id, response.id,
                                           call.timeout)
             ELSE /\ oresult = [kind |-> "ids",
                                topic_id |-> response.topic_id,
                                post_id |-> response.id,
                                status |-> "deployed"]
                  /\ polls = 0

\* C22 (as claimed): watch_topic(topic_id, last_post_id, timeout) does
\* what wait_for_reply(topic_id, last_post_id, timeout=timeout) does. With
\* a timeout above 0 the first thing wait_for_reply does is the GET of the
\* topic, and it ends with the reply post, with None, or with the Bithub
\* error a fetch raised; so does a watch_topic that has ended.
C22_WatchTopicIsWaitForReply ==
    (call.name = "watch_topic" /\ OpEnded)
    => /\ 0 < call.timeout
          => (Requests # {} /\ oplog[1] = RequestEntry("GET"))
       /\ opc = "raised" => oresult.kind \in ErrorKinds
       /\ opc = "returned" => oresult.kind \in {"None", "post"}

\* the JSON objects a body holds inside a block fenced with ```json: what
\* stands between the fence, white space aside, and the next backticks
FencedObjects(t) ==
    { SubSeq(t, q[1], q[2]) :
        q \in { p \in (1..Len(t)) \X (1..Len(t)) :
                  /\ \E i \in 1..Len(t) :
                        t[i] = "F" /\ SkipSpace(t, i + 1) = p[1]
                  /\ t[p[1]] = "{"
                  /\ p[2] \in GroupEnds(t, p[1])
                  /\ JsonLoads(SubSeq(t, p[1], p[2])) } }

\* C23 (as claimed): _enforce_audience_format returns the content
\* unchanged for audience 'human'. For audience 'ai' it returns the
\* content unchanged when the content is valid JSON; otherwise, when the
\* content holds a JSON object inside a block fenced with ```json, it
\* returns the text of such an object; and for any other content it
\* raises BithubError 'Content validation failed'.
C23_AudienceFormat ==
    (call.name = "_enforce_audience_format" /\ OpEnded)
    => IF call.audience = "human" THEN oresult = Returned(call.raw)
       ELSE call.audience = "ai"
            => IF JsonLoads(call.raw) THEN oresult = Returned(call.raw)
               ELSE IF FencedObjects(call.raw) # {}
                    THEN /\ opc = "returned"
                         /\ oresult.kind = "str"
                         /\ oresult.text \in FencedObjects(call.raw)
               ELSE /\ opc = "raised"
                    /\ oresult = Raise("BithubError",
                                       "Content validation failed")

\* the body of the call does not pass _enforce_audience_format
BodyRejected(c) ==
    /\ c.name \in WriteOps
    /\ EnforceAudienceFormat(c.raw, c.audience).kind # "str"

\* C24: a create_topic, send_private_message or reply_to_post whose body
\* the guard rejects raises in the step of the call: both limiters keep
\* their last_call, the clock has not moved, no request is started, no
\* attempt is made and nothing is slept; and the operation stays without
\* request until it has left.
C24_RejectedBeforeAnyRequest ==
    /\ [][ (Idle /\ BodyRejected(call'))
            => /\ opc' = "raised"
               /\ Raises' = {1}
               /\ call'.args = "ok"
                  => oresult' = Raise("BithubError", "Content validation failed")
               /\ UNCHANGED << cfgVars, peerVars, now, limVars, reqVars >> ]_vars
    /\ [](BodyRejected(call)
          => /\ opc = "raised"
             /\ Requests = {}
             /\ rpc = "idle"
             /\ calls = 0
             /\ sleeps = << >>)

\* reply_to_post for audience 'ai' with a body that holds no JSON has
\* raised BithubError, and no attempt was made
C24_Witness ==
    /\ opc = "raised"
    /\ call.name = "reply_to_post"
    /\ call.audience = "ai"
    /\ call.raw = PlainBody.raw
    /\ oresult = Raise("BithubError", "Content validation failed")
    /\ calls = 0

\* the operation has ended by raising BithubError with this message, and
\* has started no request
RefusedWith(msg) ==
    /\ Requests = {}
    /\ calls = 0
    /\ OpEnded => (opc = "raised" /\ oresult = Raise("BithubError", msg))

\* C25 (as claimed): a body of 32000 characters passes the content guard
\* and the write is dispatched; a body of 32001 characters is refused with
\* BithubError 'Content too long', so that no send operation dispatches a
\* write whose body is longer than 32000 characters.
C25_NoOverlongWrite ==
    (call.name \in WriteOps /\ call.args = "ok" /\ call.audience = "human")
    => /\ call.length > 32000 => RefusedWith("Content too long")
       /\ call.length = 32000 => Requests = {1}

\* an unresolved placeholder: {{...}} or the doubled section sign
HasPlaceholder(t) ==
    \/ \E i, j \in 1..(Len(t) - 1) :
          /\ i + 1 < j
          /\ t[i] = "{" /\ t[i + 1] = "{"
          /\ t[j] = "}" /\ t[j + 1] = "}"
    \/ \E i \in 1..(Len(t) - 1) : t[i] = "S" /\ t[i + 1] = "S"

\* C26 (as claimed): a body with an unresolved placeholder is refused with
\* BithubError 'Unresolved placeholders' whatever the audience, so that no
\* send operation dispatches a write that carries one.
C26_NoPlaceholderWrite ==
    (call.name \in WriteOps /\ call.args = "ok" /\ HasPlaceholder(call.raw))
    => RefusedWith("Unresolved placeholders")

\* an @username token
HasMention(t) == \E i \in 1..(Len(t) - 1) : t[i] = "@" /\ t[i + 1] = "x"

\* C27 (as claimed): a write to a category whose id is at or above
\* CORES_CATEGORY_ID with a body that holds an @username token is refused
\* with BithubError 'Genesis Purity Violation'; to a category below, the
\* same body is dispatched.
C27_NoMentionInCoreCategory ==
    (/\ call.name \in {"create_topic", "deploy_core"}
     /\ call.args = "ok"
     /\ ~call.keywords
     /\ call.audience = "human"
     /\ HasMention(call.raw)
     /\ call.category # NoCategory)
    => IF call.category >= CORES_CATEGORY_ID
       THEN RefusedWith("Genesis Purity Violation")
       ELSE Requests = {1}

\* C28 (as claimed): reply_to_post with a body that holds an @username
\* token, to a topic of fewer than 5 posts, raises BithubError
\* 'Post-Completion Rule' and dispatches nothing; with 5 posts or more the
\* write is dispatched.
C28_NoMentionBeforeCompletion ==
    (/\ call.name = "reply_to_post"
     /\ call.args = "ok"
     /\ call.audience = "human"
     /\ HasMention(call.raw))
    => IF Len(stream) < 5
       THEN RefusedWith("Post-Completion Rule")
       ELSE Requests = {1}

C30_KeyFixedAtConstruction ==
    /\ [][ (client = "none" /\ client' # "none")
            => IF Falsy(environ)
               THEN /\ client' = "raised"
                    /\ headers' = NoKey
               ELSE /\ client' = "ready"
                    /\ user_api_key' = environ
                    /\ headers' = environ ]_vars
    /\ [][ (client = "ready" /\ client' = "ready")
            => UNCHANGED << user_api_key, headers >> ]_vars
    /\ [](client # "ready" => (rpc = "idle" /\ calls = 0 /\ last = NoAttempt))
    /\ [](client = "ready" => (~Falsy(headers) /\ headers = user_api_key))
    /\ [](last # NoAttempt => (last.key = headers /\ ~Falsy(last.key)))

\* a client built with key-a, in a process whose environment has since
\* been set to key-b, has made its second attempt with key-a
C30_Witness ==
    /\ client = "ready"
    /\ environ = "key-b"
    /\ headers = "key-a"
    /\ calls = 2
    /\ last.key = "key-a"
    /\ last.status = 503

\* C35 (as claimed): every _request call ends, each attempt and each sleep
\* returning; it ends with the body returned or with one of the four
\* Bithub errors raised, after at most `retries` attempts; and with
\* retries <= 0 it has made no attempt and raised BithubNetworkError 'Max
\* retries exceeded'.
C35_RequestTerminates ==
    /\ (rpc = "loop") ~> Ended
    /\ [](Ended
          => /\ (rpc = "returned" /\ outcome.kind = "body")
                \/ (rpc = "raised" /\ outcome.kind \in ErrorKinds)
             /\ calls <= Max(retries, 0)
             /\ retries <= 0
                => /\ calls = 0
                   /\ sleeps = << >>
                   /\ outcome = Raise("BithubNetworkError",
                                      "Max retries exceeded"))

\* C36: within one _request call the backoff is 1 at the first attempt
\* and 2^k at attempt k, counted from 0: every failure after which the
\* loop goes on (429 with or without Retry-After, 5xx, transport
\* exception) doubles it, and no step of the call lowers or resets it.
C36_BackoffDoublesPerFailure ==
    /\ [](rpc = "loop" => (attempt = Attempts /\ backoff = Pow2(attempt)))
    /\ [](last # NoAttempt => last.backoff = Pow2(Attempts - 1))
    /\ [][ rpc = "loop"
            => \/ rpc' = "idle"
               \/ /\ backoff' \in {backoff, BackoffFactor * backoff}
                  /\ sleeps' # sleeps
                     => backoff' = BackoffFactor * backoff ]_vars

\* a 429 whose Retry-After of 10 s was slept, a transport failure and a
\* 503: the third attempt was made with backoff 4
C36_Witness ==
    /\ trace = << 429, TransportFailure, 503 >>
    /\ sleeps[1] = 10
    /\ sleeps[2] = 2
    /\ last.backoff = 4

\* C37: a call whose every attempt, all `retries` of them, got a 5xx has
\* slept after each, the last included: N sleeps of 1, 2, ..., 2^(N-1)
\* seconds, and then raised BithubNetworkError. A call whose N attempts
\* all raised a transport exception, or all got a 429, has raised at the
\* last attempt without sleeping: N - 1 sleeps.
C37_ServerErrorSleepsAfterLastAttempt ==
    (Ended /\ Attempts >= 1 /\ FinalAttempt)
    => /\ (\A i \in 1..Attempts : trace[i] >= 500)
          => /\ sleeps = [i \in 1..Attempts |-> Pow2(i - 1)]
             /\ last.slept = Pow2(Attempts - 1)
             /\ outcome = Raise("BithubNetworkError", "Max retries exceeded")
       /\ (\A i \in 1..Attempts : trace[i] = TransportFailure)
          => /\ sleeps = [i \in 1..(Attempts - 1) |-> Pow2(i - 1)]
             /\ last.slept = -1
             /\ outcome.kind = "BithubNetworkError"
       /\ (\A i \in 1..Attempts : trace[i] = 429)
          => /\ Len(sleeps) = Attempts - 1
             /\ last.slept = -1
             /\ outcome.kind = "BithubRateLimitError"

\* three attempts allowed, three 503 responses, three sleeps
C37_Witness ==
    /\ rpc = "raised"
    /\ retries = 3
    /\ trace = << 503, 503, 503 >>
    /\ sleeps = << 1, 2, 4 >>
    /\ outcome = Raise("BithubNetworkError", "Max retries exceeded")

RECURSIVE SleptTicks(_)
\* the time the sleeps of the running call have taken
SleptTicks(n) ==
    IF n <= 0 THEN 0 ELSE SleptTicks(n - 1) + sleeps[n] * TicksPerSecond

\* the time at which the last limiter of the running call returned
Acquired == now - SleptTicks(Len(sleeps))

\* C38: a _request call sets last_call of the global limiter, and for a
\* write of the write limiter, when it starts and before any attempt, to a
\* time not before the call's clock and later than the value before; no
\* attempt and no sleep of the call changes either last_call. So during and
\* after the call, also one that raised, last_call of the limiter acquired
\* last is the time the first attempt was made at, however long the
\* retries have slept since.
C38_LimitersAcquiredOnceBeforeAttempts ==
    /\ [][ (rpc = "idle" /\ rpc' # "idle")
           => /\ calls' = 0
              /\ global_last' >= now
              /\ global_last' > global_last
              /\ method' \in WriteMethods => write_last' > write_last ]_vars
    /\ [][ (calls' # calls \/ sleeps' # sleeps \/ Ended)
           => UNCHANGED << global_last, write_last >> ]_vars
    /\ [](rpc # "idle"
          => /\ global_last <= Acquired
             /\ method \in WriteMethods => write_last = Acquired
             /\ method \notin WriteMethods => global_last = Acquired)

\* a GET after an earlier call got 503 twice and raised: last_call is still
\* the time of its first attempt, three seconds back
C38_Witness ==
    /\ rpc = "raised"
    /\ method = "GET"
    /\ trace = << 503, 503 >>
    /\ sleeps = << 1, 2 >>
    /\ global_last > Epoch
    /\ now = global_last + 3 * TicksPerSecond

\* C39: a create_topic, send_private_message or reply_to_post called with
\* sync=True whose write was answered by a body in which topic_id or id is
\* absent or 0 never starts a wait_for_reply, makes no request but its
\* write, and what it returns is that body.
C39_SyncWithoutIdsReturnsResponse ==
    (/\ call.name \in WriteOps
     /\ call.sync
     /\ response # NoBody
     /\ ~(IdTruthy(response.topic_id) /\ IdTruthy(response.id)))
    => /\ Waits = {}
       /\ wpc = "idle"
       /\ polls = 0
       /\ opc \in {"responded", "returned"}
       /\ oplog = << RequestEntry("POST") >>
       /\ opc = "returned" => oresult = response

\* a sync reply_to_post whose write was answered without a topic_id has
\* returned the answer
C39_Witness ==
    /\ opc = "returned"
    /\ call.name = "reply_to_post"
    /\ call.sync
    /\ response # NoBody
    /\ response.topic_id = Missing
    /\ response.id = 1
    /\ oresult = response
    /\ Waits = {}

\* wait() entered at `entry` on a limiter whose last_call was `before`
\* returns at `after`: at once when at least the interval has elapsed, as
\* it has on a limiter never acquired, and otherwise after a sleep of the
\* rest of the interval plus a drawn noise
WaitSleepsOnlyWhenEarly(entry, before, after, interval) ==
    IF entry - before < interval
    THEN \E n \in Noise : after = before + interval + n
    ELSE after = entry

\* C40: each wait() of a limiter sleeps only when less than the interval
\* has elapsed since its last_call, and then the rest of the interval plus
\* the jitter; otherwise, and so on a limiter whose last_call is still 0,
\* it returns at the time it was entered. In both cases last_call is the
\* time of its return: the second limiter is entered at the first one's
\* last_call and the call goes on at the last one's.
C40_WaitSleepsOnlyWithinInterval ==
    [][ (rpc = "idle" /\ rpc' # "idle")
        => /\ WaitSleepsOnlyWhenEarly(now, global_last, global_last',
                                      Interval(GlobalCallsPerMinute))
           /\ global_last = 0 => global_last' = now
           /\ IF method' \in WriteMethods
              THEN /\ WaitSleepsOnlyWhenEarly(global_last', write_last,
                                              write_last',
                                              Interval(WriteCallsPerMinute))
                   /\ write_last = 0 => write_last' = global_last'
                   /\ now' = write_last'
              ELSE /\ write_last' = write_last
                   /\ now' = global_last' ]_vars

\* the first call of a client is a POST: both limiters were fresh and both
\* returned at the time of the call
C40_Witness ==
    /\ rpc = "loop"
    /\ calls = 0
    /\ method = "POST"
    /\ now = Epoch
    /\ global_last = Epoch
    /\ write_last = Epoch

\* C34: the two instances' limiters are apart. A step in which the first
\* instance's _request acquires, attempts or sleeps leaves both last_call
\* of the second unchanged, and a _request of the second leaves both of
\* the first unchanged; what a limiter of the second does depends on its
\* own last_call only, so it keeps its interval towards its own earlier
\* acquisition and none towards those of the first instance.
C34_InstancesShareNoLimiter ==
    /\ [][ (limVars' # limVars \/ reqVars' # reqVars)
           => UNCHANGED peerVars ]_vars
    /\ [][ peerVars' # peerVars
           => /\ UNCHANGED limVars
              /\ WaitSleepsOnlyWhenEarly(now, peer_global_last,
                                         peer_global_last',
                                         Interval(GlobalCallsPerMinute))
              /\ peer_write_last' # peer_write_last
                 => WaitSleepsOnlyWhenEarly(peer_global_last',
                                            peer_write_last,
                                            peer_write_last',
                                            Interval(WriteCallsPerMinute)) ]_vars
    /\ [][ global_last' # global_last
           => WaitSleepsOnlyWhenEarly(now, global_last, global_last',
                                      Interval(GlobalCallsPerMinute)) ]_vars

\* both instances have sent a write at the same time: neither has slept,
\* and the two acquisitions of each kind of limiter are no interval apart
C34_Witness ==
    /\ rpc = "idle"
    /\ global_last > 0
    /\ write_last = global_last
    /\ peer_global_last = global_last
    /\ peer_write_last = write_last
    /\ now = global_last

(* ======================= properties of handle_agent ==================== *)

\* the report printed for a Bithub error of the given kind and message
TypedReport(type, msg) == [status |-> "error", type |-> type, message |-> msg]

\* C31: when the send of handle_agent has raised one of the four Bithub
\* errors, handle_agent has made no wait_for_reply call and no poll, has
\* printed one report that names the kind of the error (AuthError,
\* RateLimitError, NetworkError, or BithubError for the base class) with
\* its message, and has left by sys.exit(1).
C31_SendFailureReportedExitOne ==
    (/\ call.name = "handle_agent"
     /\ Len(oplog) = 2
     /\ oplog[2].fn = "raise"
     /\ oplog[2].error.kind \in ErrorKinds)
    => LET e == oplog[2].error
       IN  /\ oplog[1] = RequestEntry("POST")
           /\ Waits = {}
           /\ polls = 0
           /\ wpc = "idle"
           /\ opc = "raised"
           /\ oresult.kind = "SystemExit"
           /\ oresult.code = 1
           /\ e.kind = "BithubAuthError"
              => oresult.stdout = << TypedReport("AuthError", e.msg) >>
           /\ e.kind = "BithubRateLimitError"
              => oresult.stdout = << TypedReport("RateLimitError", e.msg) >>
           /\ e.kind = "BithubNetworkError"
              => oresult.stdout = << TypedReport("NetworkError", e.msg) >>
           /\ e.kind = "BithubError"
              => oresult.stdout = << TypedReport("BithubError", e.msg) >>

\* the send got 429 at each of its attempts: RateLimitError is reported
C31_Witness ==
    /\ call.name = "handle_agent"
    /\ opc = "raised"
    /\ Len(oplog) = 2
    /\ oplog[2].fn = "raise"
    /\ oplog[2].error.kind = "BithubRateLimitError"
    /\ oresult.code = 1
    /\ oresult.stdout[1].type = "RateLimitError"
    /\ polls = 0

\* handle_agent after a wait_for_reply on the ids of the send's response:
\* one wait, with the caller's timeout and the default poll interval; the
\* reply's sanitized text printed and a normal return, or exit status 1
\* with nothing printed when the wait returned None
AgentWaitedOnce ==
    /\ Len(oplog) >= 2
    /\ oplog[1] = RequestEntry("POST")
    /\ oplog[2] = WaitEntry(response.topic_id, response.id, call.timeout,
                            DefaultPollInterval)
    /\ Waits = {2}
    /\ last_post_id = response.id
    /\ timeout = call.timeout
    /\ opc = "returned"
       => /\ wresult.kind = "post"
          /\ oresult.stdout =
                << SanitizeHtml(IF wresult.cooked # "" THEN wresult.cooked
                                ELSE wresult.raw) >>
    /\ (OpEnded /\ wresult = NoReply)
       => /\ opc = "raised"
          /\ oresult = SystemExit(1, << >>)
          /\ Raises = {}

\* C32 (as claimed): once the send of handle_agent has returned,
\* wait_for_reply is called exactly once, with the topic_id and id of the
\* send's response and the caller's timeout; a returned post has its
\* sanitized cooked, or raw, text printed and handle_agent returns; a
\* returned None gives exit status 1 and no report.
C32_SendThenWaitOnce ==
    (call.name = "handle_agent" /\ response # NoBody /\ opc # "responded")
    => AgentWaitedOnce

\* C32 (amended): as claimed when the send's response holds both a
\* topic_id and an id. When it lacks one of them, handle_agent calls no
\* wait_for_reply, prints a report without a type whose message is the
\* missing key, and exits with status 1.
C32_WaitsOnceOnReturnedIds ==
    (call.name = "handle_agent" /\ response # NoBody /\ opc # "responded")
    => IF response.topic_id # Missing /\ response.id # Missing
       THEN AgentWaitedOnce
       ELSE /\ Len(oplog) = 2
            /\ oplog[1] = RequestEntry("POST")
            /\ oplog[2].fn = "raise"
            /\ oplog[2].error.kind = "KeyError"
            /\ polls = 0
            /\ opc = "raised"
            /\ oresult = SystemExit(1,
                   << [status |-> "error",
                       message |-> IF response.topic_id = Missing
                                   THEN "topic_id" ELSE "id"] >>)

\* the send was answered with topic 7 and post 1, the wait on (7, 1) with
\* timeout 3 returned a post whose cooked is <p>reply</p>, and "reply" was
\* printed
C32_Witness ==
    /\ call.name = "handle_agent"
    /\ opc = "returned"
    /\ call.timeout = 3
    /\ oplog = << RequestEntry("POST"), WaitEntry(7, 1, 3, DefaultPollInterval) >>
    /\ wresult.cooked = "<p>reply</p>"
    /\ oresult.stdout = << "reply" >>

(* ====================== properties of nuke_category ==================== *)

\* C33: nuke_category makes one fetch and nothing before it. Its
\* delete_topic calls are, at any time, the first topics of the fetched
\* list in the list's order, each once; every one of them is followed by a
\* sleep of `delay` seconds before the next, whether it succeeded or
\* failed. When nuke_category has returned after a fetch that returned,
\* every topic of the list has had its delete_topic and its sleep, and an
\* empty or absent list none.
C33_EachTopicDeletedOnceThenSleep ==
    (call.name = "nuke_category" /\ opc # "idle")
    => /\ Requests = {1}
       /\ oplog[1] = RequestEntry("GET")
       /\ response = NoBody => (Deleted = << >> /\ Slept = << >>)
       /\ response # NoBody
          => LET topics == TopicList(response)
             IN  /\ Len(Deleted) <= Len(topics)
                 /\ \A i \in 1..Len(Deleted) : Deleted[i].id = topics[i]
                 /\ \A i \in 1..Len(Slept) : Slept[i].seconds = call.delay
                 /\ Len(Slept) = IF opc = "delete" THEN Len(Deleted) - 1
                                 ELSE Len(Deleted)
                 /\ opc = "returned" => Len(Deleted) = Len(topics)
                 /\ oplog[Len(oplog)].fn = "sleep"
                    <=> (opc # "delete" /\ Deleted # << >>)

\* two topics were fetched, the deletion of the first failed with 403,
\* the second was deleted, and each was followed by a sleep of 2 seconds
C33_Witness ==
    /\ call.name = "nuke_category"
    /\ opc = "returned"
    /\ response # NoBody
    /\ TopicList(response) = << 102, 101 >>
    /\ Len(oplog) = 6
    /\ oplog[2] = DeleteEntry(102)
    /\ oplog[3].fn = "log"
    /\ oplog[3].error.kind = "BithubAuthError"
    /\ oplog[4] = SleepEntry(DefaultDelay)
    /\ oplog[5] = DeleteEntry(101)
    /\ oplog[6] = SleepEntry(DefaultDelay)

====
